---- MODULE Spec2Model ----
(***************************************************************************)
(* Model of the Function Point Analysis engine, class FPAnalysis of        *)
(* FunctionPointAnalysis.ts: the store of Logical Files and Elementary     *)
(* Processes and the CRUD operations that edit it.                         *)
(*                                                                         *)
(* Arrays are sequences, objects are records.  An optional field that is   *)
(* undefined holds NoParent / NoDescription / NoFPs.  What an operation    *)
(* prints on the console is the value of its _Diag operator.               *)
(***************************************************************************)
EXTENDS Integers, Sequences, FiniteSets, TLC

(* ------------------------------ bounds -------------------------------- *)

\* The environment keeps the store small: the number of Logical Files, of
\* Elementary Processes, of their data elements and of their entries, all
\* added up, never exceeds the bound of the specification.

\* bound of Spec, the specification of the whole CRUD interface
MaxSize == 4

\* bound of SpecIds and SpecReuse, the specifications that exercise the ids
\* of the processes
IdsMaxSize == 3

\* bound of SpecCascade, the specification that exercises the cascade from a
\* file's data elements to the processes
CascadeMaxSize == 5

\* bound of SpecRoundTrip, the specification that exercises one file's data elements
RoundTripMaxSize == 5

\* bound of SpecFiles, the specification that exercises the files and their
\* data elements
FilesMaxSize == 4

(* --------------------------- input universes -------------------------- *)

\* names of Logical Files used by the environment
LFNames == {"A", "B"}

\* names of Data Elements; "A" is also a Logical File name
DENames == {"a", "A"}

\* column types used by the environment
DTypes == {"TEXT"}

\* descriptions used by the environment
Descriptions == {"d"}

NoParent == "undefined"

NoDescription == "undefined"

NoFPs == -1

\* an operation that prints nothing
NoDiag == "none"

(* ------------------------------- types -------------------------------- *)

EPType == {"EI", "EO", "EQ"}

LFType == {"ILF", "EIF", "RET"}

DataElement == [name : DENames, dtype : DTypes]

\* an entry of ElementaryProcess.dataElements
DETRef == [name : DENames, logicalFileName : LFNames]

(* ------------------------------- state -------------------------------- *)

VARIABLES
    logicalFiles,        \* FPAnalysis.logicalFiles
    elementaryProcesses, \* FPAnalysis.elementaryProcesses
    last,                \* history: the last call, when it is one the specification watches
    createdId,           \* history: for each stored EP, the id addEP gave it
    issued,              \* history: every id addEP has assigned so far
    rt,                  \* history: an addDataElementToLF and the removal that follows it
    scored,              \* history: "never" until evaluateFPs runs, "fresh" after it,
                         \* "stale" once the store has changed since
    held,                \* the document the caller holds: the value exportAsJSON
                         \* returned or the value it passed to importFromJSON
    cursor               \* tableRegex.lastIndex and columnRegex.lastIndex

vars == <<logicalFiles, elementaryProcesses, last, createdId, issued, rt, scored, held,
          cursor>>

(* ------------------------------ helpers ------------------------------- *)

\* Array.prototype.some on the names of a list
HasName(list, name) == \E i \in DOMAIN list : list[i].name = name

\* index of the first Logical File called name, 0 when there is none
\* (Array.prototype.find)
FindLF(lfs, name) ==
    IF \E i \in DOMAIN lfs : lfs[i].name = name
    THEN CHOOSE i \in DOMAIN lfs :
            /\ lfs[i].name = name
            /\ \A j \in DOMAIN lfs : lfs[j].name = name => i <= j
    ELSE 0

\* index of the first Elementary Process with this id, 0 when there is none
FindEP(eps, id) ==
    IF \E i \in DOMAIN eps : eps[i].id = id
    THEN CHOOSE i \in DOMAIN eps :
            /\ eps[i].id = id
            /\ \A j \in DOMAIN eps : eps[j].id = id => i <= j
    ELSE 0

\* the template string `${type}_${n}`
MakeId(type, n) == type \o "_" \o ToString(n)

\* this.elementaryProcesses.filter(ep => ep.type === type).length
CountOfType(eps, type) == Len(SelectSeq(eps, LAMBDA ep : ep.type = type))

\* the lengths of the dataElements of a list, added up
RECURSIVE SumLen(_)
SumLen(list) ==
    IF list = <<>> THEN 0 ELSE Len(Head(list).dataElements) + SumLen(Tail(list))

(* --------------------------- the operations --------------------------- *)

NoCall == [op |-> "none"]

NoRT == [phase |-> "none"]

NoHeld == [kind |-> "none"]

\* the cursors of the two regular expressions when the module is loaded
Rewound == [table |-> 0, column |-> 0]

Init ==
    /\ logicalFiles = <<>>
    /\ elementaryProcesses = <<>>
    /\ last = NoCall
    /\ createdId = <<>>
    /\ issued = {}
    /\ rt = NoRT
    /\ scored = "never"
    /\ held = NoHeld
    /\ cursor = Rewound

\* a duplicate check that looks at the last file of the store only
addLF_DiagLastOnly(name) ==
    IF logicalFiles # <<>> /\ logicalFiles[Len(logicalFiles)].name = name
    THEN "warn: Logical File already exists. Skipping addition."
    ELSE NoDiag

\* addLF: the warning for a name that is already in the store
addLF_Diag(name) ==
    IF HasName(logicalFiles, name)
    THEN "warn: Logical File already exists. Skipping addition."
    ELSE NoDiag

addLF(name, type, attributes, description, parentName) ==
    /\ UNCHANGED elementaryProcesses
    /\ IF addLF_Diag(name) # NoDiag
       THEN UNCHANGED logicalFiles
       ELSE logicalFiles' = Append(logicalFiles,
                [name |-> name, type |-> type, dataElements |-> attributes,
                 description |-> description, parentName |-> parentName,
                 FPs |-> NoFPs])

\* a check that does not look for the name among the file's data elements
addDataElementToLF_DiagNoDuplicateCheck(lfName, dataElement) ==
    IF FindLF(logicalFiles, lfName) = 0
    THEN "error: Logical File not found. Cannot add data element."
    ELSE NoDiag

addDataElementToLF_Diag(lfName, dataElement) ==
    LET i == FindLF(logicalFiles, lfName) IN
    IF i = 0
    THEN "error: Logical File not found. Cannot add data element."
    ELSE IF HasName(logicalFiles[i].dataElements, dataElement.name)
    THEN "warn: Data Element already exists in Logical File. Skipping addition."
    ELSE NoDiag

\* addDataElementToLF: pushes onto the first file called lfName
addDataElementToLF(lfName, dataElement) ==
    /\ UNCHANGED elementaryProcesses
    /\ IF addDataElementToLF_Diag(lfName, dataElement) # NoDiag
       THEN UNCHANGED logicalFiles
       ELSE logicalFiles' = [logicalFiles EXCEPT
                ![FindLF(logicalFiles, lfName)].dataElements = Append(@, dataElement)]

\* removeLF, first statement: ep.dataElements.filter(lf => lf.name !== name)
removeLF_EPs(eps, name) ==
    [i \in 1..Len(eps) |->
        [eps[i] EXCEPT !.dataElements = SelectSeq(@, LAMBDA de : de.name # name)]]

\* removeLF, the two filters on this.logicalFiles
removeLF_LFs(lfs, name) ==
    LET kept == SelectSeq(lfs, LAMBDA lf : lf.type # "RET" /\ lf.parentName # name)
    IN  SelectSeq(kept, LAMBDA lf : lf.name # name)

removeLF(name) ==
    /\ elementaryProcesses' = removeLF_EPs(elementaryProcesses, name)
    /\ logicalFiles' = removeLF_LFs(logicalFiles, name)

removeDataElementFromLF_Diag(lfName) ==
    IF FindLF(logicalFiles, lfName) = 0
    THEN "error: Logical File not found. Cannot remove data element."
    ELSE NoDiag

\* a cascade that matches entries by name alone
removeDataElementFromLF_EPsByName(eps, lfName, dataElement) ==
    [i \in 1..Len(eps) |->
        [eps[i] EXCEPT !.dataElements = SelectSeq(@, LAMBDA de : de.name # dataElement)]]

\* removeDataElementFromLF, the filter on every ep.dataElements
removeDataElementFromLF_EPs(eps, lfName, dataElement) ==
    [i \in 1..Len(eps) |->
        [eps[i] EXCEPT !.dataElements =
            SelectSeq(@, LAMBDA de : ~(de.logicalFileName = lfName /\ de.name = dataElement))]]

\* a filter that compares the wrong field of the data element
removeDataElementFromLF_DEsByDtype(des, dataElement) ==
    SelectSeq(des, LAMBDA attr : attr.dtype # dataElement)

\* removeDataElementFromLF, the filter on lf.dataElements
removeDataElementFromLF_DEs(des, dataElement) ==
    SelectSeq(des, LAMBDA attr : attr.name # dataElement)

removeDataElementFromLF(lfName, dataElement) ==
    IF removeDataElementFromLF_Diag(lfName) # NoDiag
    THEN UNCHANGED <<logicalFiles, elementaryProcesses>>
    ELSE /\ elementaryProcesses' =
                removeDataElementFromLF_EPs(elementaryProcesses, lfName, dataElement)
         /\ logicalFiles' = [logicalFiles EXCEPT
                ![FindLF(logicalFiles, lfName)].dataElements =
                    removeDataElementFromLF_DEs(@, dataElement)]

\* addEP, the check of one entry of dataElements.  The inner loop runs over
\* lf.dataElements and looks each of them up in lf.dataElements; the name of
\* the entry is not consulted.
addEP_Check(lfs, ref) ==
    LET i == FindLF(lfs, ref.logicalFileName) IN
    IF i = 0
    THEN "error: Logical File referenced in Elementary Process does not exist."
    ELSE IF \E k \in DOMAIN lfs[i].dataElements :
               ~HasName(lfs[i].dataElements, lfs[i].dataElements[k].name)
    THEN "error: Data Element referenced in Elementary Process does not exist."
    ELSE NoDiag

\* a validation loop that returns after its first iteration
addEP_ValidateFirstOnly(lfs, dataElements) ==
    IF dataElements = <<>> THEN NoDiag ELSE addEP_Check(lfs, dataElements[1])

\* addEP, the validation loop: the error of the first entry that fails
addEP_Validate(lfs, dataElements) ==
    IF \E k \in DOMAIN dataElements : addEP_Check(lfs, dataElements[k]) # NoDiag
    THEN LET k == CHOOSE k \in DOMAIN dataElements :
                    /\ addEP_Check(lfs, dataElements[k]) # NoDiag
                    /\ \A j \in 1..(k - 1) : addEP_Check(lfs, dataElements[j]) = NoDiag
         IN  addEP_Check(lfs, dataElements[k])
    ELSE NoDiag

addEP_Diag(dataElements) == addEP_Validate(logicalFiles, dataElements)

\* an id that counts the processes of every type
addEP_newIdAllTypes(eps, type) == MakeId(type, Len(eps) + 1)

\* addEP, the id of the new process
addEP_newId(eps, type) == MakeId(type, CountOfType(eps, type) + 1)

addEP(description, type, dataElements) ==
    /\ UNCHANGED logicalFiles
    /\ IF addEP_Diag(dataElements) # NoDiag
       THEN UNCHANGED elementaryProcesses
       ELSE elementaryProcesses' = Append(elementaryProcesses,
                [id |-> addEP_newId(elementaryProcesses, type),
                 description |-> description, type |-> type,
                 dataElements |-> dataElements, FPs |-> NoFPs])

\* a removal that closes the gap it leaves in the sequence numbers
removeEP_Renumber(eps, id) ==
    LET kept == SelectSeq(eps, LAMBDA ep : ep.id # id) IN
    [i \in 1..Len(kept) |->
        [kept[i] EXCEPT !.id =
            MakeId(kept[i].type, Cardinality({j \in 1..i : kept[j].type = kept[i].type}))]]

\* removeEP: this.elementaryProcesses.filter(ep => ep.id !== id)
removeEP_EPs(eps, id) == SelectSeq(eps, LAMBDA ep : ep.id # id)

removeEP(id) ==
    /\ elementaryProcesses' = removeEP_EPs(elementaryProcesses, id)
    /\ UNCHANGED logicalFiles

removeDETsFromEP_Diag(epId) ==
    IF FindEP(elementaryProcesses, epId) = 0
    THEN "error: Elementary Process not found. Cannot remove DET."
    ELSE NoDiag

removeDETsFromEP(epId, logicalFileName, dataElementName) ==
    /\ UNCHANGED logicalFiles
    /\ IF removeDETsFromEP_Diag(epId) # NoDiag
       THEN UNCHANGED elementaryProcesses
       ELSE elementaryProcesses' = [elementaryProcesses EXCEPT
                ![FindEP(elementaryProcesses, epId)].dataElements =
                    SelectSeq(@, LAMBDA de :
                        ~(de.logicalFileName = logicalFileName /\ de.name = dataElementName))]

\* checks that do not look whether the file holds the data element
addDETToEP_DiagNoElementCheck(epId, dataElement) ==
    LET i == FindEP(elementaryProcesses, epId)
        l == FindLF(logicalFiles, dataElement.logicalFileName)
    IN
    IF i = 0
    THEN "error: Elementary Process not found. Cannot add DET."
    ELSE IF l = 0
    THEN "error: Logical File referenced in Elementary Process does not exist."
    ELSE IF \E k \in DOMAIN elementaryProcesses[i].dataElements :
               /\ elementaryProcesses[i].dataElements[k].logicalFileName
                     = dataElement.logicalFileName
               /\ elementaryProcesses[i].dataElements[k].name = dataElement.name
    THEN "warn: DET already exists in EP. Skipping addition."
    ELSE NoDiag

addDETToEP_Diag(epId, dataElement) ==
    LET i == FindEP(elementaryProcesses, epId)
        l == FindLF(logicalFiles, dataElement.logicalFileName)
    IN
    IF i = 0
    THEN "error: Elementary Process not found. Cannot add DET."
    ELSE IF l = 0
    THEN "error: Logical File referenced in Elementary Process does not exist."
    ELSE IF ~HasName(logicalFiles[l].dataElements, dataElement.name)
    THEN "error: Data Element referenced in Elementary Process does not exist."
    ELSE IF \E k \in DOMAIN elementaryProcesses[i].dataElements :
               /\ elementaryProcesses[i].dataElements[k].logicalFileName
                     = dataElement.logicalFileName
               /\ elementaryProcesses[i].dataElements[k].name = dataElement.name
    THEN "warn: DET already exists in EP. Skipping addition."
    ELSE NoDiag

addDETToEP(epId, dataElement) ==
    /\ UNCHANGED logicalFiles
    /\ IF addDETToEP_Diag(epId, dataElement) # NoDiag
       THEN UNCHANGED elementaryProcesses
       ELSE elementaryProcesses' = [elementaryProcesses EXCEPT
                ![FindEP(elementaryProcesses, epId)].dataElements = Append(@, dataElement)]

(* --------------------------- the scoring engine ----------------------- *)

\* what a contribution function yields when it throws "Unknown complexity"
Thrown == -2

ILFContribution(complexity) ==
    CASE complexity = "Low" -> 7
      [] complexity = "Average" -> 10
      [] complexity = "High" -> 15
      [] OTHER -> Thrown

EIFContribution(complexity) ==
    CASE complexity = "Low" -> 5
      [] complexity = "Average" -> 7
      [] complexity = "High" -> 10
      [] OTHER -> Thrown

EIandEOContribution(complexity) ==
    CASE complexity = "Low" -> 3
      [] complexity = "Average" -> 4
      [] complexity = "High" -> 6
      [] OTHER -> Thrown

EQContribution(complexity) ==
    CASE complexity = "Low" -> 4
      [] complexity = "Average" -> 5
      [] complexity = "High" -> 7
      [] OTHER -> Thrown

\* evaluateFPs, the inner forEach: the record element types of the file
\* called name, as a list
evaluateFPs_RETs(lfs, name) ==
    SelectSeq(lfs, LAMBDA otherLF : otherLF.type = "RET" /\ otherLF.parentName = name)

\* a complexity whose middle row stops one record element type early
evaluateFPs_LFComplexityShortRow(nRETs, nDETs) ==
    IF nRETs = 1
    THEN IF nDETs < 50 THEN "Low" ELSE "Average"
    ELSE IF nRETs < 5
    THEN LET complexity == IF nDETs < 20 THEN "Low" ELSE "Average"
         IN  IF nDETs < 50 THEN complexity ELSE "High"
    ELSE IF nDETs < 50 THEN "Average" ELSE "High"

\* a complexity that calls the middle tier "Medium" in its last row
evaluateFPs_LFComplexityMedium(nRETs, nDETs) ==
    IF nRETs = 1
    THEN IF nDETs < 50 THEN "Low" ELSE "Average"
    ELSE IF nRETs <= 5
    THEN LET complexity == IF nDETs < 20 THEN "Low" ELSE "Average"
         IN  IF nDETs < 50 THEN complexity ELSE "High"
    ELSE IF nDETs < 50 THEN "Medium" ELSE "High"

\* evaluateFPs, the complexity of a file from nRETs and
\* lf.dataElements.length + RETsDTs
evaluateFPs_LFComplexity(nRETs, nDETs) ==
    IF nRETs = 1
    THEN IF nDETs < 50 THEN "Low" ELSE "Average"
    ELSE IF nRETs <= 5
    THEN LET complexity == IF nDETs < 20 THEN "Low" ELSE "Average"
         IN  IF nDETs < 50 THEN complexity ELSE "High"
    ELSE IF nDETs < 50 THEN "Average" ELSE "High"

\* a score that is added to the one the file carries, as without the reset
evaluateFPs_LFNoReset(lfs, lf) ==
    LET nRETs == 1 + Len(evaluateFPs_RETs(lfs, lf.name))
        RETsDTs == SumLen(evaluateFPs_RETs(lfs, lf.name))
        complexity == evaluateFPs_LFComplexity(nRETs, Len(lf.dataElements) + RETsDTs)
        carried == IF lf.FPs = NoFPs THEN 0 ELSE lf.FPs
    IN  IF lf.type = "RET" THEN carried
        ELSE carried + (IF lf.type = "ILF" THEN ILFContribution(complexity)
                        ELSE EIFContribution(complexity))

\* a score without the skip: a record element type is scored as an external
\* file
evaluateFPs_LFNoSkip(lfs, lf) ==
    LET nRETs == 1 + Len(evaluateFPs_RETs(lfs, lf.name))
        RETsDTs == SumLen(evaluateFPs_RETs(lfs, lf.name))
        complexity == evaluateFPs_LFComplexity(nRETs, Len(lf.dataElements) + RETsDTs)
    IN  IF lf.type = "ILF" THEN ILFContribution(complexity)
        ELSE EIFContribution(complexity)

\* evaluateFPs, the score of one file: a record element type keeps the 0 of
\* the reset
evaluateFPs_LF(lfs, lf) ==
    IF lf.type = "RET" THEN 0
    ELSE LET nRETs == 1 + Len(evaluateFPs_RETs(lfs, lf.name))
             RETsDTs == SumLen(evaluateFPs_RETs(lfs, lf.name))
             complexity == evaluateFPs_LFComplexity(nRETs, Len(lf.dataElements) + RETsDTs)
         IN  IF lf.type = "ILF" THEN ILFContribution(complexity)
             ELSE EIFContribution(complexity)

\* a complexity that scores an External Input with the thresholds of the
\* other types
evaluateFPs_EPComplexityOneTable(type, nLFs, nDETs) ==
    IF nLFs = 1 THEN (IF nDETs < 20 THEN "Low" ELSE "Average")
    ELSE IF nLFs = 2
    THEN (IF nDETs < 7 THEN "Low" ELSE IF nDETs < 20 THEN "Average" ELSE "High")
    ELSE (IF nDETs < 20 THEN "Average" ELSE "High")

\* a complexity that takes a process without entries with those of one file
evaluateFPs_EPComplexityEmptyIsLow(type, nLFs, nDETs) ==
    IF type = "EI"
    THEN IF nLFs <= 1 THEN (IF nDETs < 5 THEN "Low" ELSE "Average")
         ELSE IF nLFs = 2
         THEN (IF nDETs < 5 THEN "Low" ELSE IF nDETs < 15 THEN "Average" ELSE "High")
         ELSE (IF nDETs < 15 THEN "Average" ELSE "High")
    ELSE IF nLFs <= 1 THEN (IF nDETs < 20 THEN "Low" ELSE "Average")
         ELSE IF nLFs = 2
         THEN (IF nDETs < 7 THEN "Low" ELSE IF nDETs < 20 THEN "Average" ELSE "High")
         ELSE (IF nDETs < 20 THEN "Average" ELSE "High")

\* evaluateFPs, the complexity of a process from its type, nLFs and nDETs
evaluateFPs_EPComplexity(type, nLFs, nDETs) ==
    IF type = "EI"
    THEN IF nLFs = 1 THEN (IF nDETs < 5 THEN "Low" ELSE "Average")
         ELSE IF nLFs = 2
         THEN (IF nDETs < 5 THEN "Low" ELSE IF nDETs < 15 THEN "Average" ELSE "High")
         ELSE (IF nDETs < 15 THEN "Average" ELSE "High")
    ELSE IF nLFs = 1 THEN (IF nDETs < 20 THEN "Low" ELSE "Average")
         ELSE IF nLFs = 2
         THEN (IF nDETs < 7 THEN "Low" ELSE IF nDETs < 20 THEN "Average" ELSE "High")
         ELSE (IF nDETs < 20 THEN "Average" ELSE "High")

\* a score that gives the table of the External Inquiry to the External
\* Output as well
evaluateFPs_EPOutputAsInquiry(ep) ==
    LET nLFs == Cardinality({ep.dataElements[k].logicalFileName : k \in DOMAIN ep.dataElements})
        nDETs == Len(ep.dataElements)
        complexity == evaluateFPs_EPComplexity(ep.type, nLFs, nDETs)
    IN  IF ep.type = "EI" THEN EIandEOContribution(complexity)
        ELSE EQContribution(complexity)

\* evaluateFPs, the score of one process
evaluateFPs_EP(ep) ==
    LET nLFs == Cardinality({ep.dataElements[k].logicalFileName : k \in DOMAIN ep.dataElements})
        nDETs == Len(ep.dataElements)
        complexity == evaluateFPs_EPComplexity(ep.type, nLFs, nDETs)
    IN  IF ep.type = "EQ" THEN EQContribution(complexity)
        ELSE EIandEOContribution(complexity)

\* an evaluation that keeps the scored files only: the record element types
\* leave the list
evaluateFPsDropsRETs ==
    /\ logicalFiles' =
            SelectSeq([i \in 1..Len(logicalFiles) |->
                          [logicalFiles[i] EXCEPT
                              !.FPs = evaluateFPs_LF(logicalFiles, logicalFiles[i])]],
                      LAMBDA lf : lf.type # "RET")
    /\ elementaryProcesses' = [i \in 1..Len(elementaryProcesses) |->
            [elementaryProcesses[i] EXCEPT !.FPs = evaluateFPs_EP(elementaryProcesses[i])]]

\* evaluateFPs: every FPs is reset to 0 and then set from the lists as they are
evaluateFPs ==
    /\ logicalFiles' = [i \in 1..Len(logicalFiles) |->
            [logicalFiles[i] EXCEPT !.FPs = evaluateFPs_LF(logicalFiles, logicalFiles[i])]]
    /\ elementaryProcesses' = [i \in 1..Len(elementaryProcesses) |->
            [elementaryProcesses[i] EXCEPT !.FPs = evaluateFPs_EP(elementaryProcesses[i])]]

\* a sum that takes the field as it is
OrZeroRaw(FPs) == FPs

\* lf.FPs || 0
OrZero(FPs) == IF FPs = NoFPs THEN 0 ELSE FPs

\* reduce((sum, x) => sum + (x.FPs || 0), 0)
RECURSIVE SumFPs(_)
SumFPs(list) ==
    IF list = <<>> THEN 0 ELSE OrZero(Head(list).FPs) + SumFPs(Tail(list))

\* a total that leaves the processes out
getTotalFPsFilesOnly == SumFPs(logicalFiles)

\* getTotalFPs: the value returned
getTotalFPs == SumFPs(logicalFiles) + SumFPs(elementaryProcesses)

(* --------------------------- the SQL extractor ------------------------ *)

\* A SQL text is a sequence of lexemes, each a maximal run of characters of
\* one kind: the literal CREATE TABLE IF NOT EXISTS ("create"), white space
\* ("ws"), a double-quoted run of word characters ("q", with the run as v),
\* a bare run of word characters ("w", with the run as v) and the
\* punctuation marks "(", ")", ";" and ",".
Lx(k, v) == [k |-> k, v |-> v]

IsLx(text, i, k) == i \in DOMAIN text /\ text[i].k = k

\* tableRegex matches at start: CREATE TABLE IF NOT EXISTS \s+ "name" \s* \(
\* with the parenthesis at the position returned, 0 when it does not match
tableRegex_Open(sql, start) ==
    IF IsLx(sql, start, "create") /\ IsLx(sql, start + 1, "ws") /\ IsLx(sql, start + 2, "q")
    THEN IF IsLx(sql, start + 3, "(") THEN start + 3
         ELSE IF IsLx(sql, start + 3, "ws") /\ IsLx(sql, start + 4, "(") THEN start + 4
         ELSE 0
    ELSE 0

\* tableRegex, the lazy body ([\s\S]+?) followed by ");": the positions of a
\* ")" that ends a body of at least one character opened at open
tableRegex_Closes(sql, open) ==
    {e \in DOMAIN sql : e >= open + 2 /\ IsLx(sql, e, ")") /\ IsLx(sql, e + 1, ";")}

tableRegex_MatchesAt(sql, start) ==
    /\ tableRegex_Open(sql, start) # 0
    /\ tableRegex_Closes(sql, tableRegex_Open(sql, start)) # {}

Min(S) == CHOOSE x \in S : \A y \in S : x <= y

Max(S) == CHOOSE x \in S : \A y \in S : x >= y

\* a greedy body: the match runs to the last ");" of the script
tableRegex_execGreedy(sql, lastIndex) ==
    LET starts == {b \in DOMAIN sql : b > lastIndex /\ tableRegex_MatchesAt(sql, b)} IN
    IF starts = {}
    THEN [found |-> FALSE, lastIndex |-> 0]
    ELSE LET start == Min(starts)
             open == tableRegex_Open(sql, start)
             close == Max(tableRegex_Closes(sql, open))
         IN  [found |-> TRUE, name |-> sql[start + 2].v,
              body |-> SubSeq(sql, open + 1, close - 1), lastIndex |-> close + 1]

\* a search that leaves the cursor where it was when it fails
tableRegex_execNoRewind(sql, lastIndex) ==
    LET starts == {b \in DOMAIN sql : b > lastIndex /\ tableRegex_MatchesAt(sql, b)} IN
    IF starts = {}
    THEN [found |-> FALSE, lastIndex |-> lastIndex]
    ELSE LET start == Min(starts)
             open == tableRegex_Open(sql, start)
             close == Min(tableRegex_Closes(sql, open))
         IN  [found |-> TRUE, name |-> sql[start + 2].v,
              body |-> SubSeq(sql, open + 1, close - 1), lastIndex |-> close + 1]

\* tableRegex.exec(sql) with the cursor at lastIndex: the leftmost match that
\* starts at or after the cursor, its two groups and the cursor after it; a
\* failed search leaves the cursor at 0
tableRegex_exec(sql, lastIndex) ==
    LET starts == {b \in DOMAIN sql : b > lastIndex /\ tableRegex_MatchesAt(sql, b)} IN
    IF starts = {}
    THEN [found |-> FALSE, lastIndex |-> 0]
    ELSE LET start == Min(starts)
             open == tableRegex_Open(sql, start)
             close == Min(tableRegex_Closes(sql, open))
         IN  [found |-> TRUE, name |-> sql[start + 2].v,
              body |-> SubSeq(sql, open + 1, close - 1), lastIndex |-> close + 1]

columnRegex_MatchesAt(text, start) ==
    IsLx(text, start, "q") /\ IsLx(text, start + 1, "ws") /\ IsLx(text, start + 2, "w")

\* a column search that accepts anything but a word or a quoted name between
\* the quoted name and the word, as /"([\w_]+)"\W+([\w]+)/g
columnRegex_execAnySeparator(text, lastIndex) ==
    LET Separator(i) == i \in DOMAIN text /\ text[i].k \notin {"w", "q"}
        Word(b) == IF Separator(b + 1) /\ IsLx(text, b + 2, "w") THEN b + 2
                   ELSE IF Separator(b + 1) /\ Separator(b + 2) /\ IsLx(text, b + 3, "w")
                   THEN b + 3
                   ELSE 0
        starts == {b \in DOMAIN text : b > lastIndex /\ IsLx(text, b, "q") /\ Word(b) # 0}
    IN  IF starts = {}
        THEN [found |-> FALSE, lastIndex |-> 0]
        ELSE LET start == Min(starts) IN
             [found |-> TRUE, name |-> text[start].v, dtype |-> text[Word(start)].v,
              lastIndex |-> Word(start)]

\* columnRegex.exec(tableContent) with the cursor at lastIndex
columnRegex_exec(text, lastIndex) ==
    LET starts == {b \in DOMAIN text : b > lastIndex /\ columnRegex_MatchesAt(text, b)} IN
    IF starts = {}
    THEN [found |-> FALSE, lastIndex |-> 0]
    ELSE LET start == Min(starts) IN
         [found |-> TRUE, name |-> text[start].v, dtype |-> text[start + 2].v,
          lastIndex |-> start + 2]

\* readSQL, the inner loop: the columns of one table, pushed in order
RECURSIVE readSQL_Columns(_, _)
readSQL_Columns(tableContent, lastIndex) ==
    LET matchColumn == columnRegex_exec(tableContent, lastIndex) IN
    IF ~matchColumn.found THEN <<>>
    ELSE <<[name |-> matchColumn.name, dtype |-> matchColumn.dtype]>>
            \o readSQL_Columns(tableContent, matchColumn.lastIndex)

\* readSQL, the inner loop: columnRegex.lastIndex when the loop ends
RECURSIVE readSQL_ColumnsEnd(_, _)
readSQL_ColumnsEnd(tableContent, lastIndex) ==
    LET matchColumn == columnRegex_exec(tableContent, lastIndex) IN
    IF ~matchColumn.found THEN matchColumn.lastIndex
    ELSE readSQL_ColumnsEnd(tableContent, matchColumn.lastIndex)

\* readSQL, the outer loop: one file per match, pushed in order; the two
\* regular expressions search from the cursors they hold
RECURSIVE readSQL_Tables(_, _, _)
readSQL_Tables(sql, lastIndex, columnLastIndex) ==
    LET matchTable == tableRegex_exec(sql, lastIndex) IN
    IF ~matchTable.found THEN <<>>
    ELSE <<[name |-> matchTable.name, type |-> "ILF",
            dataElements |-> readSQL_Columns(matchTable.body, columnLastIndex),
            description |-> NoDescription, parentName |-> NoParent, FPs |-> NoFPs]>>
            \o readSQL_Tables(sql, matchTable.lastIndex,
                              readSQL_ColumnsEnd(matchTable.body, columnLastIndex))

\* readSQL, the outer loop: the two cursors when the loop ends
RECURSIVE readSQL_TablesEnd(_, _, _)
readSQL_TablesEnd(sql, lastIndex, columnLastIndex) ==
    LET matchTable == tableRegex_exec(sql, lastIndex) IN
    IF ~matchTable.found
    THEN [table |-> matchTable.lastIndex, column |-> columnLastIndex]
    ELSE readSQL_TablesEnd(sql, matchTable.lastIndex,
                           readSQL_ColumnsEnd(matchTable.body, columnLastIndex))

\* an extraction that cascades the reset: the entries of files that are no
\* longer stored are dropped from the processes
readSQLCascading(sql) ==
    /\ logicalFiles' = readSQL_Tables(sql, cursor.table, cursor.column)
    /\ cursor' = readSQL_TablesEnd(sql, cursor.table, cursor.column)
    /\ elementaryProcesses' =
            [i \in 1..Len(elementaryProcesses) |->
                [elementaryProcesses[i] EXCEPT !.dataElements =
                    SelectSeq(@, LAMBDA de :
                        HasName(readSQL_Tables(sql, cursor.table, cursor.column),
                                de.logicalFileName))]]

\* an extraction without the reset: the matches are pushed after the files
\* the store holds
readSQLNoReset(sql) ==
    /\ logicalFiles' = logicalFiles \o readSQL_Tables(sql, cursor.table, cursor.column)
    /\ cursor' = readSQL_TablesEnd(sql, cursor.table, cursor.column)
    /\ UNCHANGED elementaryProcesses

\* readSQL: the files are reset and filled from the matches of the two
\* module-level regular expressions, which keep their cursors between calls
readSQL(sql) ==
    /\ logicalFiles' = readSQL_Tables(sql, cursor.table, cursor.column)
    /\ cursor' = readSQL_TablesEnd(sql, cursor.table, cursor.column)
    /\ UNCHANGED elementaryProcesses

(* ---------------------------- serialization --------------------------- *)

LFKeys == {"name", "type", "dataElements", "description", "parentName", "FPs"}

EPKeys == {"id", "description", "type", "dataElements", "FPs"}

\* what reading a property that holds undefined, or that the object does not
\* have, gives
Undefined(key) == IF key = "FPs" THEN NoFPs ELSE "undefined"

\* a serializer that leaves out every falsy property, a score of 0 included
PresentTruthy(obj, key) ==
    IF key = "FPs" THEN obj[key] # NoFPs /\ obj[key] # 0
    ELSE key \in {"description", "parentName"} => obj[key] # "undefined"

\* JSON.stringify leaves out the properties whose value is undefined
Present(obj, key) ==
    key \in {"description", "parentName", "FPs"} => obj[key] # Undefined(key)

\* JSON.parse(JSON.stringify(obj)) of one stored object
JSONObject(obj) == [key \in {k \in DOMAIN obj : Present(obj, k)} |-> obj[key]]

JSONArray(list) == [i \in 1..Len(list) |-> JSONObject(list[i])]

\* obj.key as the class reads it from a parsed object
Property(obj, key) == IF key \in DOMAIN obj THEN obj[key] ELSE Undefined(key)

\* a parsed object as the store holds it
Stored(obj, keys) == [key \in keys |-> Property(obj, key)]

\* a shallow export: the returned document holds the store's own objects
exportAsJSON_SharesStore == TRUE

\* whether the document exportAsJSON returns holds objects of the store:
\* JSON.parse builds every object of its result anew
exportAsJSON_Shares == FALSE

exportAsJSON ==
    [logicalFiles |-> JSONArray(logicalFiles),
     elementaryProcesses |-> JSONArray(elementaryProcesses)]

\* whether the store holds objects of the document given to importFromJSON
importFromJSON_Shares == FALSE

\* an import that keeps the stored collection when the document has no such field
importFromJSON_FieldOrKeep(parsedData, field, keys) ==
    IF field \in DOMAIN parsedData
    THEN [i \in 1..Len(parsedData[field]) |-> Stored(parsedData[field][i], keys)]
    ELSE IF field = "logicalFiles" THEN logicalFiles ELSE elementaryProcesses

\* parsedData.field || []
importFromJSON_Field(parsedData, field, keys) ==
    IF field \in DOMAIN parsedData
    THEN [i \in 1..Len(parsedData[field]) |-> Stored(parsedData[field][i], keys)]
    ELSE <<>>

importFromJSON(data) ==
    /\ logicalFiles' = importFromJSON_Field(data, "logicalFiles", LFKeys)
    /\ elementaryProcesses' = importFromJSON_Field(data, "elementaryProcesses", EPKeys)

(* ------------------------- history variables -------------------------- *)

\* the call as the history keeps it: only the operations U watches are kept
Call(U, op, args, diagnostic) ==
    IF op \in U.watch THEN [op |-> op, args |-> args, diag |-> diagnostic] ELSE NoCall

\* createdId after removeEP: a filtered-out EP takes its entry along
RECURSIVE KeepWhere(_, _, _)
KeepWhere(seq, eps, id) ==
    IF seq = <<>> THEN <<>>
    ELSE IF Head(eps).id # id
         THEN <<Head(seq)>> \o KeepWhere(Tail(seq), Tail(eps), id)
         ELSE KeepWhere(Tail(seq), Tail(eps), id)

Pushed == Len(elementaryProcesses') = Len(elementaryProcesses) + 1

\* a pushed EP is recorded with the id it was pushed with
TrackAdd(U) ==
    /\ createdId' = IF Pushed
                    THEN Append(createdId, elementaryProcesses'[Len(elementaryProcesses')].id)
                    ELSE createdId
    /\ issued' = IF Pushed /\ U.trackIssued
                 THEN issued \cup {elementaryProcesses'[Len(elementaryProcesses')].id}
                 ELSE issued

TrackRemove(id) ==
    /\ createdId' = KeepWhere(createdId, elementaryProcesses, id)
    /\ UNCHANGED issued

(* ----------------------------- environment ---------------------------- *)

\* number of files, processes, data elements and entries in the store
Size(lfs, eps) == Len(lfs) + Len(eps) + SumLen(lfs) + SumLen(eps)

Fits(U) == Size(logicalFiles', elementaryProcesses') <= U.maxSize

EPIds(U) == {MakeId(t, n) : t \in U.epTypes, n \in 1..U.maxSize}

\* a change of the store makes fresh scores stale
Touch ==
    IF scored = "fresh"
       /\ <<logicalFiles', elementaryProcesses'>> # <<logicalFiles, elementaryProcesses>>
    THEN "stale"
    ELSE scored

\* a document that shares objects with the store shows what the store holds
Follow ==
    IF held.kind # "none" /\ held.linked
    THEN [held EXCEPT !.doc = [logicalFiles |-> JSONArray(logicalFiles'),
                               elementaryProcesses |-> JSONArray(elementaryProcesses')]]
    ELSE held

DoAddLF(U) ==
    \E name \in U.lfNames, shape \in U.lfShapes, attributes \in U.attrLists,
       description \in Descriptions :
        /\ addLF(name, shape[1], attributes, description, shape[2])
        /\ Fits(U)
        /\ last' = Call(U, "addLF",
                        [name |-> name, type |-> shape[1], attributes |-> attributes,
                         description |-> description, parentName |-> shape[2]],
                        addLF_Diag(name))
        /\ rt' = NoRT
        /\ UNCHANGED <<createdId, issued>>
        /\ scored' = Touch
        /\ UNCHANGED cursor
        /\ held' = Follow

DoAddDataElementToLF(U) ==
    \E lfName \in U.lfNames, dataElement \in [name : U.deNames, dtype : DTypes] :
        /\ addDataElementToLF(lfName, dataElement)
        /\ Fits(U)
        /\ last' = Call(U, "addDataElementToLF",
                        [lfName |-> lfName, dataElement |-> dataElement],
                        addDataElementToLF_Diag(lfName, dataElement))
        /\ rt' = IF FindLF(logicalFiles, lfName) = 0 \/ ~U.trackRT THEN NoRT
                 ELSE [phase |-> "added", lf |-> lfName, name |-> dataElement.name,
                       before |-> logicalFiles[FindLF(logicalFiles, lfName)].dataElements]
        /\ UNCHANGED <<createdId, issued>>
        /\ scored' = Touch
        /\ UNCHANGED cursor
        /\ held' = Follow

DoRemoveDataElementFromLF(U) ==
    \E lfName \in U.lfNames, dataElement \in U.deNames :
        /\ removeDataElementFromLF(lfName, dataElement)
        /\ last' = Call(U, "removeDataElementFromLF",
                        [lfName |-> lfName, dataElement |-> dataElement,
                         removed |-> SumLen(elementaryProcesses)
                                        - SumLen(elementaryProcesses')],
                        removeDataElementFromLF_Diag(lfName))
        /\ rt' = IF rt.phase = "added" /\ rt.lf = lfName /\ rt.name = dataElement
                 THEN [rt EXCEPT !.phase = "removed"]
                 ELSE NoRT
        /\ UNCHANGED <<createdId, issued>>
        /\ scored' = Touch
        /\ UNCHANGED cursor
        /\ held' = Follow

DoRemoveLF(U) ==
    \E name \in U.lfNames :
        /\ removeLF(name)
        /\ last' = Call(U, "removeLF", [name |-> name], NoDiag)
        /\ rt' = NoRT
        /\ UNCHANGED <<createdId, issued>>
        /\ scored' = Touch
        /\ UNCHANGED cursor
        /\ held' = Follow

DoAddEP(U) ==
    \E description \in Descriptions, type \in U.epTypes, dataElements \in U.detLists :
        /\ addEP(description, type, dataElements)
        /\ Fits(U)
        /\ last' = Call(U, "addEP",
                        [description |-> description, type |-> type,
                         dataElements |-> dataElements],
                        addEP_Diag(dataElements))
        /\ TrackAdd(U)
        /\ rt' = NoRT
        /\ scored' = Touch
        /\ UNCHANGED cursor
        /\ held' = Follow

DoRemoveEP(U) ==
    \E id \in EPIds(U) :
        /\ removeEP(id)
        /\ last' = Call(U, "removeEP",
                        [id |-> id,
                         removed |-> Len(elementaryProcesses) - Len(elementaryProcesses')],
                        NoDiag)
        /\ TrackRemove(id)
        /\ rt' = NoRT
        /\ scored' = Touch
        /\ UNCHANGED cursor
        /\ held' = Follow

DoAddDETToEP(U) ==
    \E epId \in EPIds(U), dataElement \in U.refs :
        /\ addDETToEP(epId, dataElement)
        /\ Fits(U)
        /\ last' = Call(U, "addDETToEP", [epId |-> epId, dataElement |-> dataElement],
                        addDETToEP_Diag(epId, dataElement))
        /\ rt' = NoRT
        /\ UNCHANGED <<createdId, issued>>
        /\ scored' = Touch
        /\ UNCHANGED cursor
        /\ held' = Follow

DoRemoveDETsFromEP(U) ==
    \E epId \in EPIds(U), ref \in U.refs :
        /\ removeDETsFromEP(epId, ref.logicalFileName, ref.name)
        /\ last' = Call(U, "removeDETsFromEP",
                        [epId |-> epId, logicalFileName |-> ref.logicalFileName,
                         dataElementName |-> ref.name],
                        removeDETsFromEP_Diag(epId))
        /\ rt' = NoRT
        /\ UNCHANGED <<createdId, issued>>
        /\ scored' = Touch
        /\ UNCHANGED cursor
        /\ held' = Follow

DoReadSQL(U) ==
    \E sql \in U.sqlTexts :
        /\ readSQL(sql)
        /\ Fits(U)
        /\ last' = Call(U, "readSQL",
                        [sql |-> sql, had |-> Len(logicalFiles),
                         previous |-> IF last.op = "readSQL" THEN <<last.args.sql>>
                                      ELSE <<>>],
                        NoDiag)
        /\ rt' = NoRT
        /\ UNCHANGED <<createdId, issued>>
        /\ scored' = Touch
        /\ held' = Follow

DoEvaluateFPs(U) ==
    /\ evaluateFPs
    /\ last' = Call(U, "evaluateFPs", [before |-> last.op], NoDiag)
    /\ rt' = NoRT
    /\ scored' = "fresh"
    /\ UNCHANGED cursor
    /\ held' = Follow
    /\ UNCHANGED <<createdId, issued>>

DoGetTotalFPs(U) ==
    /\ last' = Call(U, "getTotalFPs", [result |-> getTotalFPs], NoDiag)
    /\ rt' = NoRT
    /\ UNCHANGED <<logicalFiles, elementaryProcesses, createdId, issued, scored, held, cursor>>

\* downloadJSON: the caller keeps the document exportAsJSON returned
DoExportAsJSON(U) ==
    /\ held' = [kind |-> "export", doc |-> exportAsJSON, returned |-> exportAsJSON,
                linked |-> exportAsJSON_Shares]
    /\ last' = Call(U, "exportAsJSON", [result |-> exportAsJSON], NoDiag)
    /\ rt' = NoRT
    /\ UNCHANGED <<logicalFiles, elementaryProcesses, createdId, issued, scored, cursor>>

\* importFromJSON of a parsed file or of the document the caller holds
DoImportFromJSON(U) ==
    \E data \in U.docs \cup {held.doc : kind \in {held.kind} \ {"none"}} :
        /\ importFromJSON(data)
        /\ Fits(U)
        /\ last' = Call(U, "importFromJSON",
                        [data |-> data,
                         roundTrip |-> /\ held.kind = "export"
                                       /\ data = held.doc
                                       /\ data = exportAsJSON,
                         had |-> <<Len(logicalFiles), Len(elementaryProcesses)>>],
                        NoDiag)
        /\ held' = [kind |-> "import", doc |-> data, returned |-> data,
                    linked |-> importFromJSON_Shares]
        /\ createdId' = [i \in DOMAIN elementaryProcesses' |-> elementaryProcesses'[i].id]
        /\ rt' = NoRT
        /\ UNCHANGED issued
        /\ scored' = Touch
        /\ UNCHANGED cursor

\* the caller renames the first logical file of the document it imported
DoEditDoc(U) ==
    /\ held.kind = "import"
    /\ "logicalFiles" \in DOMAIN held.doc
    /\ held.doc.logicalFiles # <<>>
    /\ \E name \in U.editNames :
        LET edited == [held.doc EXCEPT !.logicalFiles[1].name = name] IN
        /\ edited # held.doc
        /\ held' = [held EXCEPT !.doc = edited]
        /\ IF held.linked
           THEN importFromJSON(edited)
           ELSE UNCHANGED <<logicalFiles, elementaryProcesses>>
        /\ last' = Call(U, "editDoc", [name |-> name], NoDiag)
        /\ rt' = NoRT
        /\ UNCHANGED <<createdId, issued>>
        /\ scored' = Touch
        /\ UNCHANGED cursor

CRUD(U) ==
    \/ DoAddLF(U)
    \/ DoAddDataElementToLF(U)
    \/ DoRemoveDataElementFromLF(U)
    \/ DoRemoveLF(U)
    \/ DoAddEP(U)
    \/ DoRemoveEP(U)
    \/ DoAddDETToEP(U)
    \/ DoRemoveDETsFromEP(U)

\* the inputs of Spec: two files, plain or record element types of "A", and
\* processes created with no entry, one entry or two entries
Inputs ==
    [lfNames |-> LFNames,
     lfShapes |-> {<<"ILF", NoParent>>, <<"RET", "A">>},
     attrLists |-> {<<>>},
     deNames |-> DENames,
     epTypes |-> {"EI"},
     detLists |-> {<<>>} \cup {<<r>> : r \in DETRef} \cup {<<r, q>> : r, q \in DETRef},
     refs |-> DETRef,
     maxSize |-> MaxSize,
     watch |-> {"addEP", "removeLF"},
     trackIssued |-> FALSE,
     trackRT |-> FALSE]

Next == CRUD(Inputs)

Spec == Init /\ [][Next]_vars

\* the inputs of SpecIds: processes of the three types, one file to refer to
IdsInputs ==
    [lfNames |-> {"A"},
     lfShapes |-> {<<"ILF", NoParent>>},
     attrLists |-> {<<[name |-> "a", dtype |-> "TEXT"]>>},
     deNames |-> {"a"},
     epTypes |-> EPType,
     detLists |-> {<<>>, <<[name |-> "a", logicalFileName |-> "A"]>>},
     refs |-> {[name |-> "a", logicalFileName |-> "A"]},
     maxSize |-> IdsMaxSize,
     watch |-> {"addEP", "removeEP"},
     trackIssued |-> FALSE,
     trackRT |-> FALSE]

NextIds == CRUD(IdsInputs)

SpecIds == Init /\ [][NextIds]_vars

\* SpecReuse: SpecIds with the history of the ids handed out
ReuseInputs == [IdsInputs EXCEPT !.trackIssued = TRUE]

NextReuse == CRUD(ReuseInputs)

SpecReuse == Init /\ [][NextReuse]_vars

\* the inputs of SpecCascade: processes are created with at most one entry
\* and filled entry by entry
CascadeInputs ==
    [lfNames |-> LFNames,
     lfShapes |-> {<<"ILF", NoParent>>},
     attrLists |-> {<<>>},
     deNames |-> DENames,
     epTypes |-> {"EI"},
     detLists |-> {<<>>} \cup {<<ref>> : ref \in DETRef \ {[name |-> "A", logicalFileName |-> "B"]}},
     refs |-> DETRef \ {[name |-> "A", logicalFileName |-> "B"]},
     maxSize |-> CascadeMaxSize,
     watch |-> {"removeDataElementFromLF"},
     trackIssued |-> FALSE,
     trackRT |-> FALSE]

NextCascade == CRUD(CascadeInputs)

SpecCascade == Init /\ [][NextCascade]_vars

\* the inputs of SpecRoundTrip: one file and its data elements
RoundTripInputs ==
    [lfNames |-> {"A"},
     lfShapes |-> {<<"ILF", NoParent>>, <<"EIF", NoParent>>},
     attrLists |-> {<<>>} \cup {<<e>> : e \in DataElement},
     deNames |-> DENames \cup {"b"},
     epTypes |-> {"EI"},
     detLists |-> {<<>>},
     refs |-> {[name |-> "a", logicalFileName |-> "A"]},
     maxSize |-> RoundTripMaxSize,
     watch |-> {},
     trackIssued |-> FALSE,
     trackRT |-> TRUE]

NextRoundTrip == CRUD(RoundTripInputs)

SpecRoundTrip == Init /\ [][NextRoundTrip]_vars

\* the lexemes of  CREATE TABLE IF NOT EXISTS "name" ( body );
SQLTable(name, body) ==
    <<Lx("create", ""), Lx("ws", ""), Lx("q", name), Lx("ws", ""), Lx("(", "")>>
        \o body \o <<Lx("ws", ""), Lx(")", ""), Lx(";", ""), Lx("ws", "")>>

\* the lexemes of a column line,  "name" dtype
SQLColumn(name, dtype) == <<Lx("ws", ""), Lx("q", name), Lx("ws", ""), Lx("w", dtype)>>

SQLComma == <<Lx(",", "")>>

\* the lexemes of a constraint line,  PRIMARY KEY("name")
SQLPrimaryKey(name) ==
    <<Lx("ws", ""), Lx("w", "PRIMARY"), Lx("ws", ""), Lx("w", "KEY"),
      Lx("(", ""), Lx("q", name), Lx(")", "")>>

\* one table with a column and a key, as in the sample script
SQLOneTable ==
    SQLTable("A", SQLColumn("a", "TEXT") \o SQLComma \o SQLPrimaryKey("a"))

\* two tables
SQLTwoTables ==
    SQLTable("A", SQLColumn("a", "TEXT")) \o SQLTable("B", SQLColumn("A", "TEXT"))

\* a script that creates the same table twice; IF NOT EXISTS makes the
\* second statement a no-op for the database
SQLSameTableTwice ==
    SQLTable("A", SQLColumn("a", "TEXT")) \o SQLTable("A", SQLColumn("A", "TEXT"))

\* a table body that names one column twice
SQLSameColumnTwice ==
    SQLTable("B", SQLColumn("a", "TEXT") \o SQLComma \o SQLColumn("a", "TEXT"))

\* a statement that is not closed by ");"
SQLUnclosed ==
    <<Lx("create", ""), Lx("ws", ""), Lx("q", "A"), Lx("ws", ""), Lx("(", "")>>
        \o SQLColumn("a", "TEXT") \o <<Lx(")", "")>>

\* the lexemes of a named constraint line,  CONSTRAINT "name" PRIMARY KEY("col")
SQLNamedKey(name, col) ==
    <<Lx("ws", ""), Lx("w", "CONSTRAINT"), Lx("ws", ""), Lx("q", name)>>
        \o SQLPrimaryKey(col)

\* the lexemes of a foreign key line as in the sample script,
\* FOREIGN KEY ("col") REFERENCES "table"("id")
SQLForeignKey(col, table) ==
    <<Lx("ws", ""), Lx("w", "FOREIGN"), Lx("ws", ""), Lx("w", "KEY"), Lx("ws", ""),
      Lx("(", ""), Lx("q", col), Lx(")", ""), Lx("ws", ""), Lx("w", "REFERENCES"),
      Lx("ws", ""), Lx("q", table), Lx("(", ""), Lx("q", "id"), Lx(")", ""),
      Lx("ws", ""), Lx("w", "ON"), Lx("ws", ""), Lx("w", "UPDATE")>>

\* a script as its statements: each a table name and the lines of its body,
\* a line being a column, a key, a named key or a foreign key
SQLLine(kind, name, word) == [kind |-> kind, name |-> name, word |-> word]

SQLLineText(line) ==
    CASE line.kind = "column" -> SQLColumn(line.name, line.word)
      [] line.kind = "key" -> SQLPrimaryKey(line.name)
      [] line.kind = "namedKey" -> SQLNamedKey(line.name, line.word)
      [] line.kind = "foreignKey" -> SQLForeignKey(line.name, line.word)

\* the lines of a body, separated by commas
RECURSIVE SQLBody(_)
SQLBody(lines) ==
    IF Len(lines) = 1 THEN SQLLineText(lines[1])
    ELSE SQLLineText(lines[1]) \o SQLComma \o SQLBody(Tail(lines))

RECURSIVE SQLText(_)
SQLText(script) ==
    IF script = <<>> THEN <<>>
    ELSE SQLTable(script[1].name, SQLBody(script[1].lines)) \o SQLText(Tail(script))

\* well-formed scripts: the shape of the sample script, two tables, a table
\* with a named key, a table with a key and a foreign key, and no statement
\* at all
SQLScripts ==
    {<<[name |-> "A", lines |-> <<SQLLine("column", "a", "TEXT"), SQLLine("key", "a", "")>>]>>,
     <<[name |-> "A", lines |-> <<SQLLine("column", "a", "TEXT")>>],
       [name |-> "B", lines |-> <<SQLLine("column", "A", "TEXT")>>]>>,
     <<[name |-> "A", lines |-> <<SQLLine("column", "a", "TEXT"),
                                  SQLLine("namedKey", "A", "a")>>]>>,
     <<[name |-> "A", lines |-> <<SQLLine("column", "a", "TEXT"),
                                  SQLLine("key", "a", ""),
                                  SQLLine("foreignKey", "a", "B")>>]>>,
     <<>>}

\* bound of SpecSQL, the specification that adds the extractor to the CRUD
\* interface
SQLMaxSize == 4

\* the inputs of SpecSQL: scripts to extract from, and files created with no
\* data element, with one or with the same one twice
SQLInputs ==
    [lfNames |-> LFNames,
     lfShapes |-> {<<"ILF", NoParent>>},
     attrLists |-> {<<>>} \cup {<<e>> : e \in DataElement} \cup {<<e, e>> : e \in DataElement},
     deNames |-> DENames,
     epTypes |-> {"EI"},
     detLists |-> {<<>>},
     refs |-> {[name |-> "a", logicalFileName |-> "A"]},
     sqlTexts |-> {SQLOneTable, SQLTwoTables, SQLSameTableTwice, SQLSameColumnTwice,
                   SQLUnclosed} \cup {SQLText(script) : script \in SQLScripts},
     maxSize |-> SQLMaxSize,
     watch |-> {"readSQL"},
     trackIssued |-> FALSE,
     trackRT |-> FALSE]

NextSQL == CRUD(SQLInputs) \/ DoReadSQL(SQLInputs)

SpecSQL == Init /\ [][NextSQL]_vars

\* bound of SpecScore: the stores SpecScore starts from are below it
ScoreMaxSize == 200

\* n data elements, called e1 .. en
ScoreElements(n) == [i \in 1..n |-> [name |-> "e" \o ToString(i), dtype |-> "TEXT"]]

\* a file as addLF pushes it
ScoreLF(name, type, n, parentName) ==
    [name |-> name, type |-> type, dataElements |-> ScoreElements(n),
     description |-> "d", parentName |-> parentName, FPs |-> NoFPs]

\* the files of a store of SpecScore: the file P of type t with n data
\* elements and r record element types of c data elements each; the file Q
\* of 20 data elements; the file Q2 with a record element type of 30; the
\* file Q3
ScoreFiles(t, n, r, c) ==
    <<ScoreLF("P", t, n, NoParent)>>
        \o [k \in 1..r |-> ScoreLF("R" \o ToString(k), "RET", c, "P")]
        \o <<ScoreLF("Q", "ILF", 20, NoParent), ScoreLF("Q2", "EIF", 1, NoParent),
             ScoreLF("S", "RET", 30, "Q2"), ScoreLF("Q3", "ILF", 1, NoParent)>>

\* nDETs entries that name nLFs files: one of Q2 and one of Q3 as far as
\* needed, the others of Q
ScoreEntries(nLFs, nDETs) ==
    [k \in 1..nDETs |->
        IF k < nLFs
        THEN [name |-> "e1", logicalFileName |-> IF k = 1 THEN "Q2" ELSE "Q3"]
        ELSE [name |-> "e" \o ToString(IF nLFs = 0 THEN k ELSE k - nLFs + 1),
              logicalFileName |-> "Q"]]

\* the processes of a store of SpecScore: one of each type, as addEP pushes
\* them, each with the same entries
ScoreEPs(nLFs, nDETs) ==
    [k \in 1..3 |->
        LET type == <<"EI", "EO", "EQ">>[k] IN
        [id |-> MakeId(type, 1), description |-> "d", type |-> type,
         dataElements |-> ScoreEntries(nLFs, nDETs), FPs |-> NoFPs]]

\* the numbers of data elements around the thresholds of evaluateFPs
ScoreOwnCounts == {3, 19, 20, 49, 50}

ScoreEntryCounts == {1, 3, 4, 5, 6, 7, 14, 15, 16, 19, 20}

\* the shapes of the stores of SpecScore: the file P varies while the
\* processes are fixed, or the processes vary while P is fixed
ScoreShapes ==
    {[t |-> t, n |-> n, r |-> rc[1], c |-> rc[2], nLFs |-> 2, nDETs |-> 16] :
        t \in {"ILF", "EIF"}, n \in ScoreOwnCounts,
        rc \in {<<0, 0>>, <<1, 0>>, <<1, 2>>, <<4, 0>>, <<4, 2>>, <<5, 0>>, <<5, 2>>}}
    \cup
    {shape \in [t : {"ILF"}, n : {3}, r : {1}, c : {2}, nLFs : 1..3, nDETs : ScoreEntryCounts] :
        shape.nDETs >= shape.nLFs}
    \cup
    {[t |-> "ILF", n |-> 3, r |-> 1, c |-> 2, nLFs |-> 0, nDETs |-> 0]}

\* SpecScore starts from a store that addLF and addEP calls have built
InitScore ==
    /\ \E shape \in ScoreShapes :
          /\ logicalFiles = ScoreFiles(shape.t, shape.n, shape.r, shape.c)
          /\ elementaryProcesses = ScoreEPs(shape.nLFs, shape.nDETs)
    /\ last = NoCall
    /\ createdId = [i \in DOMAIN elementaryProcesses |-> elementaryProcesses[i].id]
    /\ issued = {}
    /\ rt = NoRT
    /\ scored = "never"
    /\ held = NoHeld
    /\ cursor = Rewound

\* the inputs of SpecScore: a data element is added to P or Q or removed
\* from them between the evaluations
ScoreInputs ==
    [lfNames |-> {"P", "Q"},
     deNames |-> {"x", "e1"},
     maxSize |-> ScoreMaxSize,
     watch |-> {"evaluateFPs", "getTotalFPs"},
     trackIssued |-> FALSE,
     trackRT |-> FALSE]

NextScore ==
    \/ DoAddDataElementToLF(ScoreInputs)
    \/ DoRemoveDataElementFromLF(ScoreInputs)
    \/ DoEvaluateFPs(ScoreInputs)
    \/ DoGetTotalFPs(ScoreInputs)

SpecScore == InitScore /\ [][NextScore]_vars

\* bound of SpecTotal, the specification that scores and totals a store
\* while it is edited
TotalMaxSize == 3

\* SpecJSON: the store and every imported document weigh at most this much
JSONMaxSize == 3

\* the inputs of SpecTotal: a file, its record element type and processes
\* of two types
TotalInputs ==
    [lfNames |-> LFNames,
     lfShapes |-> {<<"ILF", NoParent>>, <<"RET", "A">>},
     attrLists |-> {<<>>},
     deNames |-> {"a"},
     epTypes |-> {"EI", "EQ"},
     detLists |-> {<<>>, <<[name |-> "a", logicalFileName |-> "A"]>>},
     refs |-> {[name |-> "a", logicalFileName |-> "A"]},
     maxSize |-> TotalMaxSize,
     watch |-> {"evaluateFPs", "getTotalFPs"},
     trackIssued |-> FALSE,
     trackRT |-> FALSE]

NextTotal ==
    \/ CRUD(TotalInputs)
    \/ DoEvaluateFPs(TotalInputs)
    \/ DoGetTotalFPs(TotalInputs)

SpecTotal == Init /\ [][NextTotal]_vars

\* the inputs of SpecFiles: files of the three types, created with no data
\* element or with one
FilesInputs ==
    [lfNames |-> LFNames,
     lfShapes |-> {<<"ILF", NoParent>>, <<"EIF", NoParent>>, <<"RET", "A">>},
     attrLists |-> {<<>>} \cup {<<e>> : e \in DataElement},
     deNames |-> DENames,
     epTypes |-> {"EI"},
     detLists |-> {<<>>, <<[name |-> "a", logicalFileName |-> "A"]>>},
     refs |-> {[name |-> "a", logicalFileName |-> "A"]},
     maxSize |-> FilesMaxSize,
     watch |-> {"addLF", "addDataElementToLF", "removeDataElementFromLF"},
     trackIssued |-> FALSE,
     trackRT |-> FALSE]

NextFiles == CRUD(FilesInputs)

SpecFiles == Init /\ [][NextFiles]_vars

\* documents a file can hold: one with scores, a record element type whose
\* parent is in no document and properties left out; one without the
\* elementaryProcesses field; one with neither field
DocScored ==
    [logicalFiles |->
        <<[name |-> "R", type |-> "RET",
           dataElements |-> <<[name |-> "a", dtype |-> "TEXT"]>>,
           parentName |-> "Z", FPs |-> 7]>>,
     elementaryProcesses |->
        <<[id |-> "EI_1", description |-> "d", type |-> "EI",
           dataElements |-> <<>>, FPs |-> 3]>>]

DocFilesOnly ==
    [logicalFiles |-> <<[name |-> "B", type |-> "ILF", dataElements |-> <<>>]>>]

DocNoFields == [version |-> 1]

\* the inputs of SpecJSON: one file name, plain or record element type of an
\* absent "B", processes without entries, and the three documents
JSONInputs ==
    [lfNames |-> {"A"},
     lfShapes |-> {<<"ILF", NoParent>>, <<"RET", "B">>},
     attrLists |-> {<<>>},
     deNames |-> {"a"},
     epTypes |-> {"EI"},
     detLists |-> {<<>>},
     refs |-> {[name |-> "a", logicalFileName |-> "A"]},
     docs |-> {DocScored, DocFilesOnly, DocNoFields},
     editNames |-> {"Z"},
     watch |-> {"evaluateFPs", "exportAsJSON", "importFromJSON", "editDoc"},
     trackRT |-> FALSE,
     trackIssued |-> FALSE,
     maxSize |-> JSONMaxSize]

NextJSON ==
    \/ DoAddLF(JSONInputs)
    \/ DoAddDataElementToLF(JSONInputs)
    \/ DoRemoveLF(JSONInputs)
    \/ DoAddEP(JSONInputs)
    \/ DoEvaluateFPs(JSONInputs)
    \/ DoExportAsJSON(JSONInputs)
    \/ DoImportFromJSON(JSONInputs)
    \/ DoEditDoc(JSONInputs)

SpecJSON == Init /\ [][NextJSON]_vars


\* bound of SpecDETs, the specification that exercises the entries of the
\* processes
DETsMaxSize == 5

\* the inputs of SpecDETs: one file with or without its data element, and
\* entries that name a data element the file may hold and one it never holds
DETsInputs ==
    [lfNames |-> {"A"},
     lfShapes |-> {<<"ILF", NoParent>>},
     attrLists |-> {<<>>},
     deNames |-> {"a"},
     epTypes |-> {"EI"},
     detLists |-> {<<>>},
     refs |-> {[name |-> "a", logicalFileName |-> "A"],
               [name |-> "A", logicalFileName |-> "A"]},
     maxSize |-> DETsMaxSize,
     watch |-> {"addDETToEP", "removeEP"},
     trackIssued |-> FALSE,
     trackRT |-> FALSE]

NextDETs == CRUD(DETsInputs)

SpecDETs == Init /\ [][NextDETs]_vars

\* bound of SpecRemove, the specification that exercises removeLF on files
\* and record element types of several parents
RemoveMaxSize == 4

\* the inputs of SpecRemove: three files, plain or record element types of
\* "A" or of "B"
RemoveInputs ==
    [lfNames |-> {"A", "B", "C"},
     lfShapes |-> {<<"ILF", NoParent>>, <<"RET", "A">>, <<"RET", "B">>},
     attrLists |-> {<<>>},
     deNames |-> {"a"},
     epTypes |-> {"EI"},
     detLists |-> {<<>>},
     refs |-> {[name |-> "a", logicalFileName |-> "A"]},
     maxSize |-> RemoveMaxSize,
     watch |-> {"removeLF"},
     trackIssued |-> FALSE,
     trackRT |-> FALSE]

NextRemove == CRUD(RemoveInputs)

SpecRemove == Init /\ [][NextRemove]_vars

(* ------------------------------- claims ------------------------------- *)

\* the entries of all processes, as a set
Entries(eps) ==
    UNION {{eps[i].dataElements[k] : k \in DOMAIN eps[i].dataElements} : i \in DOMAIN eps}

\* ref names a file of lfs that holds a data element of ref's name
Resolves(lfs, ref) ==
    \E j \in DOMAIN lfs :
        lfs[j].name = ref.logicalFileName /\ HasName(lfs[j].dataElements, ref.name)

\* C1: after removeLF(X) no process has an entry whose logicalFileName is X
\* and no RET file whose parentName is X is left.
C1_RemoveLFLeavesNoReference ==
    last.op = "removeLF" =>
        /\ \A ref \in Entries(elementaryProcesses) : ref.logicalFileName # last.args.name
        /\ \A j \in DOMAIN logicalFiles :
               ~(logicalFiles[j].type = "RET" /\ logicalFiles[j].parentName = last.args.name)

\* C2: every entry of every process names a file that is in the store and
\* that holds a data element of the entry's name.
C2_EntriesResolve ==
    \A ref \in Entries(elementaryProcesses) : Resolves(logicalFiles, ref)

\* C3: addEP with an entry that names a file of the store which does not hold
\* a data element of the entry's name leaves the processes unchanged.
C3_AddEPRejectsMissingElement ==
    [][(/\ last'.op = "addEP"
        /\ \E k \in DOMAIN last'.args.dataElements :
              LET ref == last'.args.dataElements[k] IN
              /\ HasName(logicalFiles, ref.logicalFileName)
              /\ ~Resolves(logicalFiles, ref))
       => elementaryProcesses' = elementaryProcesses]_vars

\* C4: addEP with an entry, at any position, that names a file which is not
\* in the store leaves the processes and the files unchanged.
C4_AddEPRejectsMissingFile ==
    [][(/\ last'.op = "addEP"
        /\ \E k \in DOMAIN last'.args.dataElements :
              ~HasName(logicalFiles, last'.args.dataElements[k].logicalFileName))
       => /\ elementaryProcesses' = elementaryProcesses
          /\ logicalFiles' = logicalFiles]_vars

\* C4 happens: the last call was an addEP of two entries, the first of which
\* resolves and the second of which names a file that is not in the store.
C4_Witness ==
    /\ last.op = "addEP"
    /\ Len(last.args.dataElements) = 2
    /\ Resolves(logicalFiles, last.args.dataElements[1])
    /\ ~HasName(logicalFiles, last.args.dataElements[2].logicalFileName)
    /\ logicalFiles # <<>>

\* C5: no two processes of the store have the same id.
C5_IdsUnique ==
    \A i, j \in DOMAIN elementaryProcesses :
        elementaryProcesses[i].id = elementaryProcesses[j].id => i = j

\* C6: addEP never assigns an id that an earlier addEP has assigned.
C6_IdsNeverReused ==
    [][(last'.op = "addEP" /\ last'.diag = NoDiag)
       => elementaryProcesses'[Len(elementaryProcesses')].id \notin issued]_vars

\* C7: a process that is in the store has the id it was created with.
C7_IdsNeverRenumbered ==
    /\ Len(createdId) = Len(elementaryProcesses)
    /\ \A i \in DOMAIN elementaryProcesses : elementaryProcesses[i].id = createdId[i]

\* C7 happens: removeEP has just removed the process "EI_1" and the process
\* "EI_2", of the same type, is still in the store.
C7_Witness ==
    /\ last.op = "removeEP"
    /\ last.args.id = "EI_1"
    /\ last.args.removed = 1
    /\ \E i \in DOMAIN elementaryProcesses : elementaryProcesses[i].id = "EI_2"

\* C8: an addEP that is accepted appends exactly one process, whose id is
\* "<type>_<n+1>" with n the number of processes of that type before the call.
C8_AddEPAppendsWithId ==
    [][(last'.op = "addEP" /\ last'.diag = NoDiag)
       => LET a == last'.args
              n == Cardinality({i \in DOMAIN elementaryProcesses :
                                   elementaryProcesses[i].type = a.type})
          IN  elementaryProcesses' = elementaryProcesses \o
                  <<[id |-> a.type \o "_" \o ToString(n + 1),
                     description |-> a.description, type |-> a.type,
                     dataElements |-> a.dataElements, FPs |-> NoFPs]>>]_vars

\* C8 happens: the last call was an accepted addEP, the store already held a
\* process of another type, and the new process is the first of its type.
C8_Witness ==
    /\ last.op = "addEP"
    /\ last.diag = NoDiag
    /\ Len(elementaryProcesses) >= 2
    /\ elementaryProcesses[1].type # last.args.type
    /\ elementaryProcesses[Len(elementaryProcesses)].id = last.args.type \o "_1"

\* C9: removeDataElementFromLF(lfName, elementName) on a file of the store
\* removes the elements of that name from the file and the entries
\* {elementName, lfName} from every process, and keeps every other data
\* element, every other entry, every other file and every process.
C9_RemoveDataElementCascades ==
    [][(last'.op = "removeDataElementFromLF" /\ HasName(logicalFiles, last'.args.lfName))
       => LET lfName == last'.args.lfName
              elementName == last'.args.dataElement
              i == FindLF(logicalFiles, lfName)
              pair == [name |-> elementName, logicalFileName |-> lfName]
          IN  /\ DOMAIN logicalFiles' = DOMAIN logicalFiles
              /\ ~HasName(logicalFiles'[i].dataElements, elementName)
              /\ logicalFiles'[i].dataElements =
                     SelectSeq(logicalFiles[i].dataElements,
                               LAMBDA e : e.name # elementName)
              /\ \A j \in DOMAIN logicalFiles :
                     logicalFiles'[j] =
                        [logicalFiles[j] EXCEPT !.dataElements =
                            IF j = i THEN logicalFiles'[i].dataElements ELSE @]
              /\ DOMAIN elementaryProcesses' = DOMAIN elementaryProcesses
              /\ pair \notin Entries(elementaryProcesses')
              /\ \A j \in DOMAIN elementaryProcesses :
                     elementaryProcesses'[j] =
                        [elementaryProcesses[j] EXCEPT !.dataElements =
                            SelectSeq(@, LAMBDA e : e # pair)]]_vars

\* C9 happens: the last call removed a data element of a file of the store
\* and with it an entry of a process, and a process still holds an entry of
\* that file under another name.
C9_Witness ==
    /\ last.op = "removeDataElementFromLF"
    /\ last.diag = NoDiag
    /\ last.args.removed >= 1
    /\ \E ref \in Entries(elementaryProcesses) :
           ref.logicalFileName = last.args.lfName /\ ref.name # last.args.dataElement

\* the data elements of the file the round trip is about
RoundTripElements == logicalFiles[FindLF(logicalFiles, rt.lf)].dataElements

\* C10, as claimed: addDataElementToLF(lfName, e) on a file of the store,
\* followed at once by removeDataElementFromLF(lfName, e.name), leaves the
\* file's data elements as they were before the add.
C10_AddThenRemoveRestores ==
    rt.phase = "removed" => RoundTripElements = rt.before

\* C10, amended: the same, when the file held no data element called e.name
\* before the add.
C10_AddThenRemoveRestoresFresh ==
    (rt.phase = "removed" /\ ~HasName(rt.before, rt.name)) => RoundTripElements = rt.before

\* C10 happens: a data element whose name was new to a file that held other
\* data elements has been added and removed again.
C10_Witness ==
    /\ rt.phase = "removed"
    /\ ~HasName(rt.before, rt.name)
    /\ rt.before # <<>>

\* C11: addLF with a name that is in the store leaves the files and the
\* processes unchanged; with a name that is not in the store it appends one
\* file, with the name, type, data elements, description and parent name
\* given, after the files that were there, and leaves the processes unchanged.
C11_AddLFAppendsOrSkips ==
    [][last'.op = "addLF"
       => LET a == last'.args IN
          IF HasName(logicalFiles, a.name)
          THEN /\ logicalFiles' = logicalFiles
               /\ elementaryProcesses' = elementaryProcesses
          ELSE /\ Len(logicalFiles') = Len(logicalFiles) + 1
               /\ SubSeq(logicalFiles', 1, Len(logicalFiles)) = logicalFiles
               /\ LET new == logicalFiles'[Len(logicalFiles')] IN
                      /\ new.name = a.name
                      /\ new.type = a.type
                      /\ new.dataElements = a.attributes
                      /\ new.description = a.description
                      /\ new.parentName = a.parentName
               /\ elementaryProcesses' = elementaryProcesses]_vars

\* C11 happens: the last call was an addLF of a new name with a data element,
\* and the store held another file before it.
C11_Witness ==
    /\ last.op = "addLF"
    /\ last.diag = NoDiag
    /\ last.args.attributes # <<>>
    /\ Len(logicalFiles) >= 2
    /\ logicalFiles[Len(logicalFiles)].name = last.args.name

\* C12: no two files of the store have the same name.
C12_LFNamesUnique ==
    \A i, j \in DOMAIN logicalFiles :
        logicalFiles[i].name = logicalFiles[j].name => i = j

\* the names of a list are pairwise different
UniqueNames(list) == \A i, j \in DOMAIN list : list[i].name = list[j].name => i = j

\* C13: no file of the store holds two data elements of the same name.
C13_DENamesUnique ==
    \A i \in DOMAIN logicalFiles : UniqueNames(logicalFiles[i].dataElements)

\* C14: addDataElementToLF(lfName, element) on a file of the store that holds
\* no data element of element's name appends element to that file and changes
\* nothing else; when no file is called lfName, or the file holds the name
\* already, it leaves the files and the processes unchanged.
\* removeDataElementFromLF with an lfName that no file has leaves both unchanged.
C14_AddDataElementAppendsOrSkips ==
    [][/\ last'.op = "addDataElementToLF"
          => LET a == last'.args
                 i == FindLF(logicalFiles, a.lfName)
             IN  /\ elementaryProcesses' = elementaryProcesses
                 /\ IF i # 0 /\ ~HasName(logicalFiles[i].dataElements, a.dataElement.name)
                    THEN logicalFiles' = [logicalFiles EXCEPT
                            ![i].dataElements = @ \o <<a.dataElement>>]
                    ELSE logicalFiles' = logicalFiles
       /\ (last'.op = "removeDataElementFromLF"
            /\ ~HasName(logicalFiles, last'.args.lfName))
          => /\ logicalFiles' = logicalFiles
             /\ elementaryProcesses' = elementaryProcesses]_vars

\* C14 happens: the last call appended a data element to a file that held
\* one already, in a store of two files.
C14_Witness ==
    /\ last.op = "addDataElementToLF"
    /\ last.diag = NoDiag
    /\ Len(logicalFiles) = 2
    /\ Len(logicalFiles[FindLF(logicalFiles, last.args.lfName)].dataElements) = 2

\* the record element types of the file at i: the positions of the files of
\* type RET whose parentName is its name
ChildrenOf(i) ==
    {j \in DOMAIN logicalFiles :
        logicalFiles[j].type = "RET" /\ logicalFiles[j].parentName = logicalFiles[i].name}

\* the numbers of data elements of the files at the positions of S, added up
RECURSIVE ElementsOf(_)
ElementsOf(S) ==
    IF S = {} THEN 0
    ELSE LET j == CHOOSE j \in S : TRUE
         IN  Len(logicalFiles[j].dataElements) + ElementsOf(S \ {j})

\* the tier of a file, by the matrix of record element types and data elements
LFTier(nRETs, totalDETs) ==
    CASE nRETs = 1 -> IF totalDETs < 50 THEN "Low" ELSE "Average"
      [] nRETs \in 2..5 -> IF totalDETs < 20 THEN "Low"
                           ELSE IF totalDETs \in 20..49 THEN "Average" ELSE "High"
      [] nRETs >= 6 -> IF totalDETs < 50 THEN "Average" ELSE "High"

\* the points of a tier, one table per type
Points(type, tier) ==
    CASE type = "ILF" -> (CASE tier = "Low" -> 7 [] tier = "Average" -> 10 [] tier = "High" -> 15)
      [] type = "EIF" -> (CASE tier = "Low" -> 5 [] tier = "Average" -> 7 [] tier = "High" -> 10)
      [] type = "EI" -> (CASE tier = "Low" -> 3 [] tier = "Average" -> 4 [] tier = "High" -> 6)
      [] type = "EO" -> (CASE tier = "Low" -> 3 [] tier = "Average" -> 4 [] tier = "High" -> 6)
      [] type = "EQ" -> (CASE tier = "Low" -> 4 [] tier = "Average" -> 5 [] tier = "High" -> 7)

\* C15: after evaluateFPs every file of type ILF or EIF has the points of its
\* tier, with nRETs one more than the number of its record element types and
\* totalDETs its own data elements plus theirs.
C15_LFScores ==
    last.op = "evaluateFPs" =>
        \A i \in DOMAIN logicalFiles :
            logicalFiles[i].type \in {"ILF", "EIF"} =>
                logicalFiles[i].FPs =
                    Points(logicalFiles[i].type,
                           LFTier(1 + Cardinality(ChildrenOf(i)),
                                  Len(logicalFiles[i].dataElements) + ElementsOf(ChildrenOf(i))))

\* C15 happens: evaluateFPs has scored an ILF with three data elements and
\* one record element type of two data elements with 7.
C15_Witness ==
    /\ last.op = "evaluateFPs"
    /\ logicalFiles[1].type = "ILF"
    /\ Len(logicalFiles[1].dataElements) = 3
    /\ Cardinality(ChildrenOf(1)) = 1
    /\ ElementsOf(ChildrenOf(1)) = 2
    /\ logicalFiles[1].FPs = 7

\* the number of distinct files the entries of a process name
NLFs(ep) == Cardinality({ref.logicalFileName : ref \in Entries(<<ep>>)})

\* the tier of an External Input
EITier(nLFs, nDETs) ==
    CASE nLFs = 1 -> IF nDETs < 5 THEN "Low" ELSE "Average"
      [] nLFs = 2 -> IF nDETs < 5 THEN "Low" ELSE IF nDETs \in 5..14 THEN "Average" ELSE "High"
      [] nLFs >= 3 -> IF nDETs < 15 THEN "Average" ELSE "High"

\* C16: after evaluateFPs every process of type EI whose entries name at
\* least one file has the points of its tier, with nLFs the number of
\* distinct files named and nDETs the number of entries.
C16_EIScores ==
    last.op = "evaluateFPs" =>
        \A i \in DOMAIN elementaryProcesses :
            LET ep == elementaryProcesses[i] IN
            (ep.type = "EI" /\ NLFs(ep) >= 1) =>
                ep.FPs = Points("EI", EITier(NLFs(ep), Len(ep.dataElements)))

\* C16 happens: evaluateFPs has scored an External Input of 16 entries that
\* name two files with 6.
C16_Witness ==
    /\ last.op = "evaluateFPs"
    /\ \E i \in DOMAIN elementaryProcesses :
          LET ep == elementaryProcesses[i] IN
          ep.type = "EI" /\ NLFs(ep) = 2 /\ Len(ep.dataElements) = 16 /\ ep.FPs = 6

\* the tier of an External Output or an External Inquiry
EOEQTier(nLFs, nDETs) ==
    CASE nLFs = 1 -> IF nDETs < 20 THEN "Low" ELSE "Average"
      [] nLFs = 2 -> IF nDETs < 7 THEN "Low" ELSE IF nDETs < 20 THEN "Average" ELSE "High"
      [] nLFs >= 3 -> IF nDETs < 20 THEN "Average" ELSE "High"

\* C17: after evaluateFPs every process of type EO or EQ whose entries name
\* at least one file has the points of its tier: 3, 4, 6 for EO and 4, 5, 7
\* for EQ.
C17_EOEQScores ==
    last.op = "evaluateFPs" =>
        \A i \in DOMAIN elementaryProcesses :
            LET ep == elementaryProcesses[i] IN
            (ep.type \in {"EO", "EQ"} /\ NLFs(ep) >= 1) =>
                ep.FPs = Points(ep.type, EOEQTier(NLFs(ep), Len(ep.dataElements)))

\* C17 happens: evaluateFPs has scored an External Output and an External
\* Inquiry of 20 entries that name two files with 6 and 7.
C17_Witness ==
    /\ last.op = "evaluateFPs"
    /\ \E i, j \in DOMAIN elementaryProcesses :
          LET eo == elementaryProcesses[i]
              eq == elementaryProcesses[j]
          IN  /\ eo.type = "EO" /\ NLFs(eo) = 2 /\ Len(eo.dataElements) = 20 /\ eo.FPs = 6
              /\ eq.type = "EQ" /\ NLFs(eq) = 2 /\ Len(eq.dataElements) = 20 /\ eq.FPs = 7

\* the scores the entities of a list carry, added up; an entity that has
\* none counts 0
RECURSIVE Carried(_)
Carried(list) ==
    IF list = <<>> THEN 0
    ELSE (IF Head(list).FPs = NoFPs THEN 0 ELSE Head(list).FPs) + Carried(Tail(list))

\* C18, as claimed: getTotalFPs returns 0 whenever evaluateFPs has not run
\* since the last change of the store.
C18_TotalZeroUnlessFresh ==
    (last.op = "getTotalFPs" /\ scored # "fresh") => last.args.result = 0

\* C18, amended: getTotalFPs returns 0 while evaluateFPs has never run; once
\* it has run and the store has changed since, getTotalFPs returns the sum of
\* the scores the entities still carry.
C18_TotalZeroBeforeFirstEvaluate ==
    last.op = "getTotalFPs" =>
        /\ scored = "never" => last.args.result = 0
        /\ scored = "stale" =>
              last.args.result = Carried(logicalFiles) + Carried(elementaryProcesses)

\* C18 happens: the total is read after evaluateFPs and a change of the
\* store; an entity added since carries no score and the total is not 0.
C18_Witness ==
    /\ last.op = "getTotalFPs"
    /\ scored = "stale"
    /\ last.args.result > 0
    /\ \E i \in DOMAIN logicalFiles : logicalFiles[i].FPs = NoFPs

\* the FPs fields of a list, added up as they are
RECURSIVE FieldSum(_)
FieldSum(list) == IF list = <<>> THEN 0 ELSE Head(list).FPs + FieldSum(Tail(list))

\* C19: getTotalFPs called right after evaluateFPs returns the sum of the FPs
\* of all files plus the sum of the FPs of all processes, and getTotalFPs
\* never changes the store.
C19_TotalIsSumAfterEvaluate ==
    [][last'.op = "getTotalFPs"
       => /\ logicalFiles' = logicalFiles
          /\ elementaryProcesses' = elementaryProcesses
          /\ last.op = "evaluateFPs"
                => last'.args.result = FieldSum(logicalFiles) + FieldSum(elementaryProcesses)]_vars

\* C19 happens: the total of a scored store of files and processes has been
\* read and is the sum of scores of both kinds.
C19_Witness ==
    /\ last.op = "getTotalFPs"
    /\ scored = "fresh"
    /\ FieldSum(logicalFiles) > 0
    /\ FieldSum(elementaryProcesses) > 0
    /\ last.args.result = FieldSum(logicalFiles) + FieldSum(elementaryProcesses)

\* a list with the scores taken away
Unscored(list) == [i \in 1..Len(list) |-> [list[i] EXCEPT !.FPs = NoFPs]]

\* C20: evaluateFPs right after evaluateFPs leaves every score as it was, and
\* the scores evaluateFPs leaves are those it leaves on the same store
\* without scores.
C20_EvaluateIdempotent ==
    [][last'.op = "evaluateFPs"
       => /\ last.op = "evaluateFPs"
                => /\ logicalFiles' = logicalFiles
                   /\ elementaryProcesses' = elementaryProcesses
          /\ \A i \in DOMAIN logicalFiles :
                logicalFiles'[i].FPs =
                    evaluateFPs_LF(Unscored(logicalFiles), Unscored(logicalFiles)[i])
          /\ \A i \in DOMAIN elementaryProcesses :
                elementaryProcesses'[i].FPs =
                    evaluateFPs_EP(Unscored(elementaryProcesses)[i])]_vars

\* C20 happens: evaluateFPs has run twice in a row on a store whose file P
\* was given the data element x, and P carries a score.
C20_Witness ==
    /\ last.op = "evaluateFPs"
    /\ last.args.before = "evaluateFPs"
    /\ HasName(logicalFiles[1].dataElements, "x")
    /\ logicalFiles[1].FPs > 0

\* C21: right after evaluateFPs every record element type has a score of 0,
\* whatever its data elements, whether or not a stored file has the name in
\* its parentName, and whatever score it carried into the call.
C21_RETScoresZero ==
    last.op = "evaluateFPs" =>
        \A i \in DOMAIN logicalFiles :
            logicalFiles[i].type = "RET" => logicalFiles[i].FPs = 0

\* C21 happens: evaluateFPs has run on the import of DocScored, whose record
\* element type came with a score of 7, has a data element and names a parent
\* that is not in the store.
C21_Witness ==
    /\ last.op = "evaluateFPs"
    /\ last.args.before = "importFromJSON"
    /\ held.kind = "import"
    /\ held.doc = DocScored
    /\ DocScored.logicalFiles[1].FPs = 7
    /\ \E i \in DOMAIN logicalFiles :
          /\ logicalFiles[i].name = "R"
          /\ logicalFiles[i].type = "RET"
          /\ logicalFiles[i].dataElements # <<>>
          /\ ~HasName(logicalFiles, logicalFiles[i].parentName)
          /\ logicalFiles[i].FPs = 0

\* C22: importFromJSON of the document that exportAsJSON has just returned
\* from the store leaves both collections as they were, in order and in every
\* property, the scores included; evaluateFPs and getTotalFPs read nothing
\* else, so they give after the round trip what they give without it.
C22_RoundTripKeepsStore ==
    [][(last'.op = "importFromJSON" /\ last'.args.roundTrip) =>
            /\ logicalFiles' = logicalFiles
            /\ elementaryProcesses' = elementaryProcesses]_vars

\* C22 happens: the round trip has been made on a store that holds a record
\* element type with a score of 0 and a process that has no score yet.
C22_Witness ==
    /\ last.op = "importFromJSON"
    /\ last.args.roundTrip
    /\ \E i \in DOMAIN logicalFiles :
          /\ logicalFiles[i].type = "RET"
          /\ logicalFiles[i].parentName = "B"
          /\ logicalFiles[i].FPs = 0
    /\ \E i \in DOMAIN elementaryProcesses : elementaryProcesses[i].FPs = NoFPs

\* C23: importFromJSON replaces both collections: afterwards the files are
\* those of doc.logicalFiles and the processes those of
\* doc.elementaryProcesses, whatever the store held, and a field the document
\* does not have gives an empty collection.
C23_ImportReplaces ==
    [][last'.op = "importFromJSON" =>
            LET doc == last'.args.data IN
            /\ IF "logicalFiles" \in DOMAIN doc
               THEN JSONArray(logicalFiles') = doc.logicalFiles
               ELSE logicalFiles' = <<>>
            /\ IF "elementaryProcesses" \in DOMAIN doc
               THEN JSONArray(elementaryProcesses') = doc.elementaryProcesses
               ELSE elementaryProcesses' = <<>>]_vars

\* C23 happens: a document with one file and no elementaryProcesses field has
\* been imported into a store that held files and processes; the store holds
\* that one file and no process.
C23_Witness ==
    /\ last.op = "importFromJSON"
    /\ last.args.data = DocFilesOnly
    /\ last.args.had[1] > 0
    /\ last.args.had[2] > 0
    /\ Len(logicalFiles) = 1
    /\ logicalFiles[1].name = "B"
    /\ elementaryProcesses = <<>>

C24_WitnessImport ==
    /\ held.kind = "import"
    /\ last.op = "editDoc"
    /\ held.returned = DocFilesOnly
    /\ held.doc.logicalFiles[1].name = "Z"
    /\ Len(logicalFiles) = 1
    /\ logicalFiles[1].name = "B"

\* the column lines of a table body as name/type pairs, in order
RECURSIVE ColumnPairs(_)
ColumnPairs(lines) ==
    IF lines = <<>> THEN <<>>
    ELSE (IF lines[1].kind = "column"
          THEN <<[name |-> lines[1].name, dtype |-> lines[1].word]>>
          ELSE <<>>) \o ColumnPairs(Tail(lines))

\* the places of a table body where a quoted name is followed by white space
\* and a word, in order: the column lines, and the name of a named key
\* followed by PRIMARY
RECURSIVE TokenPairs(_)
TokenPairs(lines) ==
    IF lines = <<>> THEN <<>>
    ELSE (CASE lines[1].kind = "column" ->
                    <<[name |-> lines[1].name, dtype |-> lines[1].word]>>
            [] lines[1].kind = "namedKey" ->
                    <<[name |-> lines[1].name, dtype |-> "PRIMARY"]>>
            [] OTHER -> <<>>) \o TokenPairs(Tail(lines))

\* C25 as stated: after readSQL of a script of N well-formed statements the
\* store holds N files, in statement order, named after the tables, of type
\* ILF, whose data elements are the column name/type pairs of the table.
C25_ExtractsTablesAndColumns ==
    last.op = "readSQL" =>
        \A script \in SQLScripts :
            SQLText(script) = last.args.sql =>
                /\ Len(logicalFiles) = Len(script)
                /\ \A i \in DOMAIN script :
                      /\ logicalFiles[i].name = script[i].name
                      /\ logicalFiles[i].type = "ILF"
                      /\ logicalFiles[i].dataElements = ColumnPairs(script[i].lines)

\* what readSQL does extract from these scripts: the same, with every quoted
\* name that is followed by white space and a word as a data element, the
\* name of a named key with PRIMARY included.
C25_ExtractsTablesAndTokenPairs ==
    last.op = "readSQL" =>
        \A script \in SQLScripts :
            SQLText(script) = last.args.sql =>
                /\ Len(logicalFiles) = Len(script)
                /\ \A i \in DOMAIN script :
                      /\ logicalFiles[i].name = script[i].name
                      /\ logicalFiles[i].type = "ILF"
                      /\ logicalFiles[i].dataElements = TokenPairs(script[i].lines)

\* readSQL has extracted the two tables of a script, A before B, each with
\* its column.
C25_Witness ==
    /\ last.op = "readSQL"
    /\ \E script \in SQLScripts : Len(script) = 2 /\ SQLText(script) = last.args.sql
    /\ Len(logicalFiles) = 2
    /\ logicalFiles[1].name = "A"
    /\ logicalFiles[2].name = "B"
    /\ logicalFiles[2].dataElements = <<[name |-> "A", dtype |-> "TEXT"]>>

\* the quoted names of a script
QuotedNames(sql) == {sql[i].v : i \in {j \in DOMAIN sql : sql[j].k = "q"}}

\* whether a script has a ")" directly followed by ";" anywhere
HasClose(sql) == \E i \in DOMAIN sql : IsLx(sql, i, ")") /\ IsLx(sql, i + 1, ";")

\* C26: after readSQL the store holds only files of the given script: each is
\* an ILF without description, named by a quoted name of the script, with
\* data elements named by quoted names of the script, and there are as many as
\* the script has statements; a script without a closed statement leaves no
\* file. readSQL has no diagnostic and no throw, so the step has no error
\* outcome.
C26_ReadSQLResets ==
    [][last'.op = "readSQL" =>
            LET sql == last'.args.sql IN
            /\ \A i \in DOMAIN logicalFiles' :
                  /\ logicalFiles'[i].type = "ILF"
                  /\ logicalFiles'[i].description = NoDescription
                  /\ logicalFiles'[i].name \in QuotedNames(sql)
                  /\ \A j \in DOMAIN logicalFiles'[i].dataElements :
                        logicalFiles'[i].dataElements[j].name \in QuotedNames(sql)
            /\ \A script \in SQLScripts :
                  SQLText(script) = sql => Len(logicalFiles') = Len(script)
            /\ ~HasClose(sql) => logicalFiles' = <<>>]_vars

\* C26 happens: readSQL of a script whose statement is not closed has
\* emptied a store that held files.
C26_Witness ==
    /\ last.op = "readSQL"
    /\ last.args.sql = SQLUnclosed
    /\ last.args.had > 0
    /\ logicalFiles = <<>>

\* index of the first process with that id, 0 when there is none
FirstWithId(eps, id) ==
    IF \E i \in DOMAIN eps : eps[i].id = id
    THEN CHOOSE i \in DOMAIN eps : eps[i].id = id /\ \A j \in 1..(i - 1) : eps[j].id # id
    ELSE 0

\* C27: addDETToEP appends the pair to the process with that id when the
\* process exists, a file of that name exists and holds a data element of that
\* name, and the process does not hold the pair yet; otherwise the processes
\* are unchanged. The files are unchanged in both cases.
C27_AddDETAppendsOrSkips ==
    [][last'.op = "addDETToEP" =>
            LET epId == last'.args.epId
                pair == last'.args.dataElement
                i == FirstWithId(elementaryProcesses, epId)
                accepted ==
                    /\ i # 0
                    /\ \E l \in DOMAIN logicalFiles :
                          /\ logicalFiles[l].name = pair.logicalFileName
                          /\ \E k \in DOMAIN logicalFiles[l].dataElements :
                                logicalFiles[l].dataElements[k].name = pair.name
                    /\ \A k \in DOMAIN elementaryProcesses[i].dataElements :
                          elementaryProcesses[i].dataElements[k] # pair
            IN  /\ logicalFiles' = logicalFiles
                /\ IF accepted
                   THEN elementaryProcesses' =
                            [elementaryProcesses EXCEPT
                                ![i].dataElements = Append(@, pair)]
                   ELSE elementaryProcesses' = elementaryProcesses]_vars

\* C27 happens: addDETToEP has refused a pair whose data element the existing
\* file does not hold, for a process that exists.
C27_Witness ==
    /\ last.op = "addDETToEP"
    /\ last.diag = "error: Data Element referenced in Elementary Process does not exist."
    /\ HasName(logicalFiles, last.args.dataElement.logicalFileName)
    /\ \E i \in DOMAIN elementaryProcesses : elementaryProcesses[i].id = last.args.epId

\* C27 happens: addDETToEP has appended a pair to a process.
C27_WitnessAppended ==
    /\ last.op = "addDETToEP"
    /\ last.diag = NoDiag
    /\ \E i \in DOMAIN elementaryProcesses :
          /\ elementaryProcesses[i].id = last.args.epId
          /\ elementaryProcesses[i].dataElements # <<>>
          /\ elementaryProcesses[i].dataElements[Len(elementaryProcesses[i].dataElements)]
                = last.args.dataElement

\* the number of processes before position i that have that id
Before(eps, i, id) == Cardinality({j \in 1..(i - 1) : eps[j].id = id})

\* what removeEP does keep: the files, and every process of another id,
\* unchanged and in the same order; no process of that id stays.
C28_RemoveEPKeepsOtherIds ==
    [][last'.op = "removeEP" =>
            LET id == last'.args.id IN
            /\ logicalFiles' = logicalFiles
            /\ \A i \in DOMAIN elementaryProcesses :
                  elementaryProcesses[i].id # id =>
                      /\ i - Before(elementaryProcesses, i, id) \in DOMAIN elementaryProcesses'
                      /\ elementaryProcesses'[i - Before(elementaryProcesses, i, id)]
                            = elementaryProcesses[i]
            /\ \A k \in DOMAIN elementaryProcesses' : elementaryProcesses'[k].id # id
            /\ Len(elementaryProcesses') <= Len(elementaryProcesses)]_vars

\* C28: removeEP(id) removes the process with that id and nothing else: at
\* most one process leaves the store, every process of another id stays
\* unchanged and in order, the files are unchanged, and the store is
\* unchanged when no process has the id.
C28_RemoveEPRemovesOnlyThat ==
    [][last'.op = "removeEP" =>
            LET id == last'.args.id IN
            /\ logicalFiles' = logicalFiles
            /\ Len(elementaryProcesses') >= Len(elementaryProcesses) - 1
            /\ \A i \in DOMAIN elementaryProcesses :
                  elementaryProcesses[i].id # id =>
                      \E k \in DOMAIN elementaryProcesses' :
                          elementaryProcesses'[k] = elementaryProcesses[i]
            /\ (\A i \in DOMAIN elementaryProcesses : elementaryProcesses[i].id # id)
                  => elementaryProcesses' = elementaryProcesses]_vars

\* C29: every record element type of the store names in parentName a stored
\* file that is not a record element type itself.
C29_RETParentExists ==
    \A i \in DOMAIN logicalFiles :
        logicalFiles[i].type = "RET" =>
            \E j \in DOMAIN logicalFiles :
                /\ logicalFiles[j].name = logicalFiles[i].parentName
                /\ logicalFiles[j].type # "RET"

\* C30: removeLF(name) removes from the files the one called name and the
\* record element types whose parentName is name; every other file, the
\* record element types of other parents included, stays unchanged and in
\* order.
C30_RemoveLFCascadesOneLevel ==
    [][last'.op = "removeLF" =>
            LET name == last'.args.name IN
            logicalFiles' =
                SelectSeq(logicalFiles,
                          LAMBDA lf : ~(\/ lf.name = name
                                        \/ lf.type = "RET" /\ lf.parentName = name))]_vars

\* C31: removeLF(X) leaves in every process every entry whose logicalFileName
\* is not X, also when the data element of the entry is called X.
C31_RemoveLFKeepsOtherEntries ==
    [][last'.op = "removeLF" =>
            LET name == last'.args.name IN
            /\ Len(elementaryProcesses') = Len(elementaryProcesses)
            /\ \A i \in DOMAIN elementaryProcesses :
                  \A k \in DOMAIN elementaryProcesses[i].dataElements :
                      elementaryProcesses[i].dataElements[k].logicalFileName # name =>
                          \E m \in DOMAIN elementaryProcesses'[i].dataElements :
                              elementaryProcesses'[i].dataElements[m]
                                  = elementaryProcesses[i].dataElements[k]]_vars

\* C32: removeLF of a name that no stored file has leaves the files and the
\* processes as they were.
C32_RemoveAbsentLFIsNoOp ==
    [][(last'.op = "removeLF"
            /\ \A i \in DOMAIN logicalFiles : logicalFiles[i].name # last'.args.name) =>
            /\ logicalFiles' = logicalFiles
            /\ elementaryProcesses' = elementaryProcesses]_vars

\* C33: readSQL leaves the processes and their entries exactly as they were,
\* the entries of files and data elements that the reset removed included.
C33_ReadSQLKeepsProcesses ==
    [][last'.op = "readSQL" => elementaryProcesses' = elementaryProcesses]_vars

\* C33 happens: after readSQL a process still holds an entry of a file that
\* the store no longer holds.
C33_Witness ==
    /\ last.op = "readSQL"
    /\ last.args.had > 0
    /\ \E i \in DOMAIN elementaryProcesses :
          \E k \in DOMAIN elementaryProcesses[i].dataElements :
              ~HasName(logicalFiles, elementaryProcesses[i].dataElements[k].logicalFileName)

\* C34: between calls both regular expressions have their cursor at 0, and
\* what readSQL leaves is what it extracts from the same script with both
\* cursors at 0, whatever was extracted before: for the scripts of SQLScripts,
\* one file per statement, named after its table, in order.
C34_ReadSQLStateless ==
    /\ cursor = Rewound
    /\ last.op = "readSQL" =>
          /\ logicalFiles = readSQL_Tables(last.args.sql, 0, 0)
          /\ \A script \in SQLScripts :
                SQLText(script) = last.args.sql =>
                    /\ Len(logicalFiles) = Len(script)
                    /\ \A i \in DOMAIN script : logicalFiles[i].name = script[i].name

\* C34 happens: readSQL has been called twice in a row with the same script
\* of two statements and the store holds its two files.
C34_Witness ==
    /\ last.op = "readSQL"
    /\ last.args.previous = <<last.args.sql>>
    /\ \E script \in SQLScripts : Len(script) = 2 /\ SQLText(script) = last.args.sql
    /\ Len(logicalFiles) = 2
    /\ cursor = Rewound

\* the lines of kind key and foreignKey of a table body
ConstraintLines(lines) == {k \in DOMAIN lines : lines[k].kind \in {"key", "foreignKey"}}

\* C35 as stated: a PRIMARY KEY("col") line and a FOREIGN KEY ("col")
\* REFERENCES "T"("id") line of a table body each give a data element of the
\* file, like a column line.
C35_ConstraintLinesExtracted ==
    last.op = "readSQL" =>
        \A script \in SQLScripts :
            SQLText(script) = last.args.sql =>
                \A i \in DOMAIN script :
                    Len(logicalFiles[i].dataElements)
                        >= Cardinality({k \in DOMAIN script[i].lines :
                                            script[i].lines[k].kind = "column"})
                           + Cardinality(ConstraintLines(script[i].lines))

\* C35 amended: readSQL filters nothing, yet these two lines give no data
\* element, as each quoted name in them is followed by a parenthesis; the
\* data elements of a file are the column lines and, for a line that names
\* its key, the name of the key with the word PRIMARY.
C35_KeyLinesNotExtracted ==
    last.op = "readSQL" =>
        \A script \in SQLScripts :
            SQLText(script) = last.args.sql =>
                \A i \in DOMAIN script :
                    LET lines == script[i].lines
                        elements == logicalFiles[i].dataElements
                    IN  /\ Len(elements) =
                              Cardinality({k \in DOMAIN lines :
                                              lines[k].kind \in {"column", "namedKey"}})
                        /\ \A j \in DOMAIN elements :
                              \E k \in DOMAIN lines :
                                  /\ lines[k].name = elements[j].name
                                  /\ \/ lines[k].kind = "column"
                                        /\ elements[j].dtype = lines[k].word
                                     \/ lines[k].kind = "namedKey"
                                        /\ elements[j].dtype = "PRIMARY"

\* C35 happens: readSQL has extracted a table whose body has a column, a key
\* line and a foreign key line, and the file has the column as its only data
\* element.
C35_Witness ==
    /\ last.op = "readSQL"
    /\ \E script \in SQLScripts :
          /\ SQLText(script) = last.args.sql
          /\ Len(script) = 1
          /\ Cardinality(ConstraintLines(script[1].lines)) = 2
    /\ Len(logicalFiles) = 1
    /\ logicalFiles[1].dataElements = <<[name |-> "a", dtype |-> "TEXT"]>>

\* C36: right after evaluateFPs a process without entries has the score of
\* the Average tier: 4 for an External Input and an External Output, 5 for an
\* External Inquiry.
C36_EmptyProcessIsAverage ==
    last.op = "evaluateFPs" =>
        \A i \in DOMAIN elementaryProcesses :
            elementaryProcesses[i].dataElements = <<>> =>
                elementaryProcesses[i].FPs
                    = (IF elementaryProcesses[i].type = "EQ" THEN 5 ELSE 4)

\* C36 happens: evaluateFPs has scored an External Input, an External Output
\* and an External Inquiry without entries with 4, 4 and 5.
C36_Witness ==
    /\ last.op = "evaluateFPs"
    /\ \A type \in EPType :
          \E i \in DOMAIN elementaryProcesses :
              /\ elementaryProcesses[i].type = type
              /\ elementaryProcesses[i].dataElements = <<>>
              /\ elementaryProcesses[i].FPs = (IF type = "EQ" THEN 5 ELSE 4)

\* C37: no process holds the same {name, logicalFileName} pair at two
\* positions of its dataElements.
C37_EntriesUnique ==
    \A i \in DOMAIN elementaryProcesses :
        \A k, m \in DOMAIN elementaryProcesses[i].dataElements :
            elementaryProcesses[i].dataElements[k] = elementaryProcesses[i].dataElements[m]
                => k = m

\* C38: evaluateFPs changes nothing but FPs: both lists keep their length and
\* order, and every file and process is what it was in every other property.
C38_EvaluateChangesOnlyFPs ==
    [][last'.op = "evaluateFPs" =>
            /\ Len(logicalFiles') = Len(logicalFiles)
            /\ Len(elementaryProcesses') = Len(elementaryProcesses)
            /\ \A i \in DOMAIN logicalFiles :
                  [logicalFiles'[i] EXCEPT !.FPs = logicalFiles[i].FPs] = logicalFiles[i]
            /\ \A i \in DOMAIN elementaryProcesses :
                  [elementaryProcesses'[i] EXCEPT !.FPs = elementaryProcesses[i].FPs]
                      = elementaryProcesses[i]]_vars

\* C38 happens: evaluateFPs has scored a store that holds a file, a record
\* element type of it and a process with entries.
C38_Witness ==
    /\ last.op = "evaluateFPs"
    /\ \E i, j \in DOMAIN logicalFiles :
          /\ logicalFiles[i].FPs > 0
          /\ logicalFiles[j].type = "RET"
          /\ logicalFiles[j].parentName = logicalFiles[i].name
    /\ \E i \in DOMAIN elementaryProcesses :
          /\ elementaryProcesses[i].dataElements # <<>>
          /\ elementaryProcesses[i].FPs > 0

\* C39: evaluateFPs does not throw: right after it no score is the outcome
\* of the "Unknown complexity" branch, every file that is not a record
\* element type has a score of the table of its type, and every process has a
\* score of the table of its type.
C39_EvaluateNeverThrows ==
    last.op = "evaluateFPs" =>
        /\ \A i \in DOMAIN logicalFiles :
              /\ logicalFiles[i].FPs # Thrown
              /\ logicalFiles[i].type = "ILF" => logicalFiles[i].FPs \in {7, 10, 15}
              /\ logicalFiles[i].type = "EIF" => logicalFiles[i].FPs \in {5, 7, 10}
        /\ \A i \in DOMAIN elementaryProcesses :
              /\ elementaryProcesses[i].FPs # Thrown
              /\ elementaryProcesses[i].type \in {"EI", "EO"} =>
                    elementaryProcesses[i].FPs \in {3, 4, 6}
              /\ elementaryProcesses[i].type = "EQ" =>
                    elementaryProcesses[i].FPs \in {4, 5, 7}

\* C39 happens: evaluateFPs has scored a file with six record element types
\* (itself and five of its own) as Average, the last row of the table of the
\* files, and a process as High.
C39_Witness ==
    /\ last.op = "evaluateFPs"
    /\ \E i \in DOMAIN logicalFiles :
          /\ logicalFiles[i].type = "ILF"
          /\ Cardinality({j \in DOMAIN logicalFiles :
                            /\ logicalFiles[j].type = "RET"
                            /\ logicalFiles[j].parentName = logicalFiles[i].name}) = 5
          /\ logicalFiles[i].FPs = 10
    /\ \E i \in DOMAIN elementaryProcesses : elementaryProcesses[i].FPs = 6

====
